---- MODULE Spec2Model ----
(***************************************************************************)
(* Read-only query gateway of claude-mcp-server: the PostgresDBManager,    *)
(* MySQLDBManager and MongoDBManager classes (connect, disconnect,         *)
(* execute_query, execute_query_to_dataframe) with their policy checks     *)
(* and the MongoDB shell-syntax parser.                                    *)
(*                                                                         *)
(* Command texts are sequences of one-character strings, so that the       *)
(* string operations of the source (strip, upper, lower, startswith, `in`, *)
(* re.search with \b, re.sub, json.loads, json.dumps) are computed on the  *)
(* characters as Python computes them.                                     *)
(***************************************************************************)
EXTENDS Integers, Sequences, FiniteSets, TLC

VARIABLES backend, connection, client, db, session, server, last

vars == <<backend, connection, client, db, session, server, last>>

----------------------------------------------------------------------------
(* Python str operations.                                                  *)

\* abcdefghijklmnopqrstuvwxyz
LowerLetters == <<"a","b","c","d","e","f","g","h","i","j","k","l","m","n","o","p","q","r","s","t","u","v","w","x","y","z">>
\* ABCDEFGHIJKLMNOPQRSTUVWXYZ
UpperLetters == <<"A","B","C","D","E","F","G","H","I","J","K","L","M","N","O","P","Q","R","S","T","U","V","W","X","Y","Z">>
Digits == {"0","1","2","3","4","5","6","7","8","9"}

Range(s) == {s[i] : i \in DOMAIN s}

\* str.isspace for the characters used here (str.strip, regex \s)
WhiteSpace == {" ", "\t", "\n"}

\* regex \w
WordChars == Range(LowerLetters) \cup Range(UpperLetters) \cup Digits \cup {"_"}

UpperOf == [c \in Range(LowerLetters) |->
              UpperLetters[CHOOSE i \in 1..26 : LowerLetters[i] = c]]
LowerOf == [c \in Range(UpperLetters) |->
              LowerLetters[CHOOSE i \in 1..26 : UpperLetters[i] = c]]

upper(s) == [i \in DOMAIN s |-> IF s[i] \in DOMAIN UpperOf THEN UpperOf[s[i]] ELSE s[i]]
lower(s) == [i \in DOMAIN s |-> IF s[i] \in DOMAIN LowerOf THEN LowerOf[s[i]] ELSE s[i]]

\* str.strip(): drop leading and trailing whitespace
strip(s) ==
    LET keep == {i \in DOMAIN s : s[i] \notin WhiteSpace}
    IN  IF keep = {} THEN <<>>
        ELSE SubSeq(s, CHOOSE i \in keep : \A j \in keep : i <= j,
                       CHOOSE i \in keep : \A j \in keep : i >= j)

\* str.strip(chars)
strip_chars(s, chars) ==
    LET keep == {i \in DOMAIN s : s[i] \notin chars}
    IN  IF keep = {} THEN <<>>
        ELSE SubSeq(s, CHOOSE i \in keep : \A j \in keep : i <= j,
                       CHOOSE i \in keep : \A j \in keep : i >= j)

startswith(s, p) == Len(s) >= Len(p) /\ SubSeq(s, 1, Len(p)) = p

\* p occurs in s at position i
OccursAt(p, s, i) == i >= 1 /\ i + Len(p) - 1 <= Len(s) /\ SubSeq(s, i, i + Len(p) - 1) = p

\* Python `p in s` for strings
contains(s, p) == \E i \in 1..(Len(s) - Len(p) + 1) : OccursAt(p, s, i)

\* regex \b between s[i-1] and s[i] (i in 1..Len(s)+1)
WordBoundary(s, i) ==
    (i > 1 /\ s[i-1] \in WordChars) # (i <= Len(s) /\ s[i] \in WordChars)

\* re.match in place of re.search: the word at the start of s only
re_search_word_at_start(kw, s) ==
    /\ OccursAt(kw, s, 1)
    /\ WordBoundary(s, 1 + Len(kw))

\* re.search(r'\b' + kw + r'\b', s)
re_search_word(kw, s) ==
    \E i \in 1..(Len(s) - Len(kw) + 1) :
        /\ OccursAt(kw, s, i)
        /\ WordBoundary(s, i)
        /\ WordBoundary(s, i + Len(kw))

\* first position >= i of s whose character is not in chars (Len(s)+1 if none)
FirstNotIn(s, i, chars) ==
    IF \E j \in i..Len(s) : s[j] \notin chars
    THEN CHOOSE j \in i..Len(s) : s[j] \notin chars /\ \A k \in i..(j-1) : s[k] \in chars
    ELSE Len(s) + 1

\* first position >= i of s that holds no whitespace (regex \s*)
SkipSpace(s, i) == FirstNotIn(s, i, WhiteSpace)

\* The character loops below (`for i, char in enumerate(text)` and the
\* scans of re.sub and str.replace) run the positions lo..hi in order, as
\* two halves one after the other, which keeps the evaluation shallow on
\* long texts; st is the loop state and st.stop says that the loop was left.

\* A left-to-right rewriting scan (re.sub, str.replace): out is the text
\* built so far, next the first position not yet consumed
Rewriting == [out |-> <<>>, next |-> 1, stop |-> FALSE]

\* re.search(r'\b' + func + r'\s*\(', s)
re_search_call(func, s) ==
    \E i \in 1..(Len(s) - Len(func) + 1) :
        /\ OccursAt(func, s, i)
        /\ WordBoundary(s, i)
        /\ LET j == SkipSpace(s, i + Len(func))
           IN  j <= Len(s) /\ s[j] = "("

----------------------------------------------------------------------------
(* PostgresDBManager: policy.                                              *)

\* safe_prefixes of is_read_only_query
SAFE_PREFIXES == <<
    \* EXPLAIN 
    <<"E","X","P","L","A","I","N"," ">>,
    \* SHOW 
    <<"S","H","O","W"," ">>,
    \* DESCRIBE 
    <<"D","E","S","C","R","I","B","E"," ">>,
    \* WITH 
    <<"W","I","T","H"," ">> >>

\* unsafe_keywords of the WITH branch of is_read_only_query
WITH_UNSAFE_KEYWORDS == {
    \* INSERT   UPDATE   DELETE   DROP
    <<"I","N","S","E","R","T">>, <<"U","P","D","A","T","E">>, <<"D","E","L","E","T","E">>, <<"D","R","O","P">>,
    \* CREATE   ALTER   TRUNCATE
    <<"C","R","E","A","T","E">>, <<"A","L","T","E","R">>, <<"T","R","U","N","C","A","T","E">> }

\* the first prefix of safe_prefixes that sql starts with, 0 if none
FirstSafePrefix(sql) ==
    IF \E k \in DOMAIN SAFE_PREFIXES : startswith(sql, SAFE_PREFIXES[k])
    THEN CHOOSE k \in DOMAIN SAFE_PREFIXES :
            /\ startswith(sql, SAFE_PREFIXES[k])
            /\ \A j \in 1..(k-1) : ~startswith(sql, SAFE_PREFIXES[j])
    ELSE 0

\* a faulty is_read_only_query that lets every WITH query through without
\* scanning its text
is_read_only_query_unscanned_with(sql) ==
    \* SELECT
    startswith(sql, <<"S","E","L","E","C","T">>) \/ FirstSafePrefix(sql) # 0

is_read_only_query(sql) ==
    \* SELECT
    IF startswith(sql, <<"S","E","L","E","C","T">>) THEN TRUE
    ELSE LET k == FirstSafePrefix(sql)
         IN  IF k = 0 THEN FALSE
             \* WITH 
             ELSE IF SAFE_PREFIXES[k] = <<"W","I","T","H"," ">>
                  THEN ~(\E keyword \in WITH_UNSAFE_KEYWORDS : contains(sql, keyword))
                  ELSE TRUE

PG_UNSAFE_KEYWORDS == {
    \* INSERT   UPDATE   DELETE   DROP   CREATE   ALTER   TRUNCATE
    <<"I","N","S","E","R","T">>, <<"U","P","D","A","T","E">>, <<"D","E","L","E","T","E">>, <<"D","R","O","P">>, <<"C","R","E","A","T","E">>, <<"A","L","T","E","R">>, <<"T","R","U","N","C","A","T","E">>,
    \* GRANT   REVOKE   VACUUM   CLUSTER   REINDEX
    <<"G","R","A","N","T">>, <<"R","E","V","O","K","E">>, <<"V","A","C","U","U","M">>, <<"C","L","U","S","T","E","R">>, <<"R","E","I","N","D","E","X">>,
    \* EXECUTE   CALL   DO   LOCK   UNLISTEN   NOTIFY
    <<"E","X","E","C","U","T","E">>, <<"C","A","L","L">>, <<"D","O">>, <<"L","O","C","K">>, <<"U","N","L","I","S","T","E","N">>, <<"N","O","T","I","F","Y">>,
    \* SECURITY LABEL   PREPARE   DEALLOCATE   SAVEPOINT   RELEASE
    <<"S","E","C","U","R","I","T","Y"," ","L","A","B","E","L">>, <<"P","R","E","P","A","R","E">>, <<"D","E","A","L","L","O","C","A","T","E">>, <<"S","A","V","E","P","O","I","N","T">>, <<"R","E","L","E","A","S","E">>,
    \* COMMIT   ROLLBACK   BEGIN   START   END   CHECKPOINT
    <<"C","O","M","M","I","T">>, <<"R","O","L","L","B","A","C","K">>, <<"B","E","G","I","N">>, <<"S","T","A","R","T">>, <<"E","N","D">>, <<"C","H","E","C","K","P","O","I","N","T">>,
    \* DECLARE   FETCH   MOVE   CLOSE   LISTEN   UNLOCK
    <<"D","E","C","L","A","R","E">>, <<"F","E","T","C","H">>, <<"M","O","V","E">>, <<"C","L","O","S","E">>, <<"L","I","S","T","E","N">>, <<"U","N","L","O","C","K">>,
    \* ANALYZE   LOAD   COPY
    <<"A","N","A","L","Y","Z","E">>, <<"L","O","A","D">>, <<"C","O","P","Y">> }

PG_UNSAFE_FUNCTIONS == {
    \* PG_SLEEP   PG_READ_FILE   PG_EXECUTE   LO_IMPORT   LO_EXPORT
    <<"P","G","_","S","L","E","E","P">>, <<"P","G","_","R","E","A","D","_","F","I","L","E">>, <<"P","G","_","E","X","E","C","U","T","E">>, <<"L","O","_","I","M","P","O","R","T">>, <<"L","O","_","E","X","P","O","R","T">>,
    \* PG_TERMINATE_BACKEND   PG_RELOAD_CONF   PG_ROTATE_LOGFILE
    <<"P","G","_","T","E","R","M","I","N","A","T","E","_","B","A","C","K","E","N","D">>, <<"P","G","_","R","E","L","O","A","D","_","C","O","N","F">>, <<"P","G","_","R","O","T","A","T","E","_","L","O","G","F","I","L","E">> }

contains_unsafe_operations(sql) ==
    \/ \E keyword \in PG_UNSAFE_KEYWORDS : re_search_word(keyword, sql)
    \/ \E func \in PG_UNSAFE_FUNCTIONS : re_search_call(func, sql)

----------------------------------------------------------------------------
(* MySQLDBManager: policy.                                                 *)

mysql_is_read_only_query(sql) ==
    \* SELECT
    IF startswith(sql, <<"S","E","L","E","C","T">>) THEN TRUE
    ELSE LET k == FirstSafePrefix(sql)
         IN  IF k = 0 THEN FALSE
             \* WITH 
             ELSE IF SAFE_PREFIXES[k] = <<"W","I","T","H"," ">>
                  THEN ~(\E keyword \in WITH_UNSAFE_KEYWORDS : contains(sql, keyword))
                  ELSE TRUE

MYSQL_UNSAFE_KEYWORDS == {
    \* INSERT   UPDATE   DELETE   DROP   CREATE   ALTER   TRUNCATE
    <<"I","N","S","E","R","T">>, <<"U","P","D","A","T","E">>, <<"D","E","L","E","T","E">>, <<"D","R","O","P">>, <<"C","R","E","A","T","E">>, <<"A","L","T","E","R">>, <<"T","R","U","N","C","A","T","E">>,
    \* GRANT   REVOKE   OPTIMIZE   REPAIR   ANALYZE
    <<"G","R","A","N","T">>, <<"R","E","V","O","K","E">>, <<"O","P","T","I","M","I","Z","E">>, <<"R","E","P","A","I","R">>, <<"A","N","A","L","Y","Z","E">>,
    \* CALL   DO   LOCK   UNLOCK
    <<"C","A","L","L">>, <<"D","O">>, <<"L","O","C","K">>, <<"U","N","L","O","C","K">>,
    \* PREPARE   DEALLOCATE   SAVEPOINT   RELEASE
    <<"P","R","E","P","A","R","E">>, <<"D","E","A","L","L","O","C","A","T","E">>, <<"S","A","V","E","P","O","I","N","T">>, <<"R","E","L","E","A","S","E">>,
    \* COMMIT   ROLLBACK   START   BEGIN   END   XA
    <<"C","O","M","M","I","T">>, <<"R","O","L","L","B","A","C","K">>, <<"S","T","A","R","T">>, <<"B","E","G","I","N">>, <<"E","N","D">>, <<"X","A">>,
    \* FLUSH   RESET   PURGE   CHANGE   SHUTDOWN
    <<"F","L","U","S","H">>, <<"R","E","S","E","T">>, <<"P","U","R","G","E">>, <<"C","H","A","N","G","E">>, <<"S","H","U","T","D","O","W","N">>,
    \* KILL   LOAD   HANDLER
    <<"K","I","L","L">>, <<"L","O","A","D">>, <<"H","A","N","D","L","E","R">> }

MYSQL_UNSAFE_FUNCTIONS == {
    \* SLEEP   BENCHMARK   LOAD_FILE   FOUND_ROWS   DATABASE
    <<"S","L","E","E","P">>, <<"B","E","N","C","H","M","A","R","K">>, <<"L","O","A","D","_","F","I","L","E">>, <<"F","O","U","N","D","_","R","O","W","S">>, <<"D","A","T","A","B","A","S","E">>,
    \* USER   SYSTEM_USER   SESSION_USER   PASSWORD   ENCRYPT
    <<"U","S","E","R">>, <<"S","Y","S","T","E","M","_","U","S","E","R">>, <<"S","E","S","S","I","O","N","_","U","S","E","R">>, <<"P","A","S","S","W","O","R","D">>, <<"E","N","C","R","Y","P","T">>,
    \* COMPRESS   ENCODE   DECODE
    <<"C","O","M","P","R","E","S","S">>, <<"E","N","C","O","D","E">>, <<"D","E","C","O","D","E">> }

mysql_contains_unsafe_operations(sql) ==
    \/ \E keyword \in MYSQL_UNSAFE_KEYWORDS : re_search_word(keyword, sql)
    \/ \E func \in MYSQL_UNSAFE_FUNCTIONS : re_search_call(func, sql)

----------------------------------------------------------------------------
(* Python values as json.loads / json.dumps see them.  A value is a record *)
(* [t, v]: t the type, v the payload (characters of a str or an int, the   *)
(* items of a list, the <<key, value>> pairs of a dict in insertion        *)
(* order).                                                                 *)

PyNone == [t |-> "None", v |-> <<>>]
PyStr(s) == [t |-> "str", v |-> s]
PyInt(digits) == [t |-> "int", v |-> digits]
\* true   false
PyBool(b) == [t |-> "bool", v |-> IF b THEN <<"t","r","u","e">> ELSE <<"f","a","l","s","e">>]
PyList(items) == [t |-> "list", v |-> items]
PyDict(pairs) == [t |-> "dict", v |-> pairs]

\* keys of a dict, in order
Keys(d) == [i \in DOMAIN d.v |-> d.v[i][1]]

\* Python `key in d` for a dict d
HasKey(d, key) == \E i \in DOMAIN d.v : d.v[i][1] = key

\* d[key] (HasKey(d, key) assumed), d.get(key, default)
Get(d, key) == d.v[CHOOSE i \in DOMAIN d.v : d.v[i][1] = key][2]
GetOr(d, key, default) == IF HasKey(d, key) THEN Get(d, key) ELSE default

\* Python truthiness
Truthy(x) ==
    CASE x.t = "None" -> FALSE
      \* true
      [] x.t = "bool" -> x.v = <<"t","r","u","e">>
      [] x.t = "int"  -> x.v # <<"0">>
      [] OTHER        -> x.v # <<>>

----------------------------------------------------------------------------
(* json.loads: objects, arrays, strings (escapes \", \\, \/ and $),   *)
(* integers, true, false, null; the whole text must be one value.          *)

ParseFail == [ok |-> FALSE, val |-> PyNone, next |-> 0]
ParseOk(val, next) == [ok |-> TRUE, val |-> val, next |-> next]

\* \uXXXX escapes the scanner decodes
\* 0024
UnicodeEscapes == [h \in {<<"0","0","2","4">>} |-> "$"]

\* one character of a string literal: st.out the decoded text, st.next the
\* first position not consumed by an escape, st.closed set at the closing
\* quote, st.bad at an escape that is not decoded
StringStep(s, j, st) ==
    IF j < st.next THEN st
    ELSE IF s[j] = "\"" THEN [st EXCEPT !.stop = TRUE, !.closed = TRUE, !.next = j + 1]
    ELSE IF s[j] = "\\" THEN
        IF j + 1 <= Len(s) /\ s[j+1] \in {"\"", "\\", "/"}
        THEN [st EXCEPT !.out = Append(@, s[j+1]), !.next = j + 2]
        ELSE IF /\ j + 5 <= Len(s) /\ s[j+1] = "u"
                /\ SubSeq(s, j + 2, j + 5) \in DOMAIN UnicodeEscapes
        THEN [st EXCEPT !.out = Append(@, UnicodeEscapes[SubSeq(s, j + 2, j + 5)]),
                        !.next = j + 6]
        ELSE [st EXCEPT !.stop = TRUE, !.bad = TRUE]
    ELSE [st EXCEPT !.out = Append(@, s[j]), !.next = j + 1]

RECURSIVE StringLoop(_, _, _, _)
StringLoop(text, lo, hi, st) ==
    IF lo > hi THEN st
    ELSE IF lo = hi THEN StringStep(text, lo, st)
    ELSE LET mid == (lo + hi) \div 2
             left == StringLoop(text, lo, mid, st)
         IN  IF left.stop THEN left ELSE StringLoop(text, mid + 1, hi, left)

\* the string literal whose opening quote is at j - 1
ScanString(s, j) ==
    LET st == StringLoop(s, j, Len(s),
                   [out |-> <<>>, next |-> j, stop |-> FALSE, closed |-> FALSE, bad |-> FALSE])
    IN  IF st.closed THEN ParseOk(st.out, st.next) ELSE ParseFail

\* last position of the run of digits that starts at i (i - 1 if none)
DigitsEnd(s, i) == FirstNotIn(s, i, Digits) - 1

ScanNumber(s, i) ==
    LET d == IF s[i] = "-" THEN i + 1 ELSE i
        e == DigitsEnd(s, d)
    IN  IF e < d THEN ParseFail
        ELSE IF s[d] = "0" /\ e > d THEN ParseFail
        ELSE ParseOk(PyInt(SubSeq(s, i, e)), e + 1)

RECURSIVE ParseValue(_, _)
RECURSIVE ParseMembers(_, _, _)
RECURSIVE ParseElements(_, _, _)

\* the rest of a member once its value val is parsed: "}" ends the
\* object, "," leads to the next key
MemberValue(s, k, val, acc) ==
    IF ~val.ok THEN ParseFail
    ELSE LET e == SkipSpace(s, val.next)
             now == Append(acc, <<k, val.val>>)
         IN  IF e > Len(s) THEN ParseFail
             ELSE IF s[e] = "}" THEN ParseOk(PyDict(now), e + 1)
             ELSE IF s[e] = "," THEN ParseMembers(s, SkipSpace(s, e + 1), now)
             ELSE ParseFail

\* the rest of a member once its key is scanned: ":" and the value
Member(s, key, acc) ==
    IF ~key.ok THEN ParseFail
    ELSE LET c == SkipSpace(s, key.next)
         IN  IF c > Len(s) \/ s[c] # ":" THEN ParseFail
             ELSE MemberValue(s, key.val, ParseValue(s, SkipSpace(s, c + 1)), acc)

\* members of an object from the key at j on
ParseMembers(s, j, acc) ==
    IF j > Len(s) \/ s[j] # "\"" THEN ParseFail
    ELSE Member(s, ScanString(s, j + 1), acc)

\* the rest of an array once its element val is parsed
Element(s, val, acc) ==
    IF ~val.ok THEN ParseFail
    ELSE LET e == SkipSpace(s, val.next)
             now == Append(acc, val.val)
         IN  IF e > Len(s) THEN ParseFail
             ELSE IF s[e] = "]" THEN ParseOk(PyList(now), e + 1)
             ELSE IF s[e] = "," THEN ParseElements(s, SkipSpace(s, e + 1), now)
             ELSE ParseFail

\* elements of an array from the value at j on
ParseElements(s, j, acc) == Element(s, ParseValue(s, j), acc)

ParseValue(s, i) ==
    IF i > Len(s) THEN ParseFail
    ELSE IF s[i] = "{" THEN
        LET j == SkipSpace(s, i + 1)
        IN  IF j <= Len(s) /\ s[j] = "}" THEN ParseOk(PyDict(<<>>), j + 1)
            ELSE ParseMembers(s, j, <<>>)
    ELSE IF s[i] = "[" THEN
        LET j == SkipSpace(s, i + 1)
        IN  IF j <= Len(s) /\ s[j] = "]" THEN ParseOk(PyList(<<>>), j + 1)
            ELSE ParseElements(s, j, <<>>)
    ELSE IF s[i] = "\"" THEN
        LET str == ScanString(s, i + 1)
        IN  IF str.ok THEN ParseOk(PyStr(str.val), str.next) ELSE ParseFail
    ELSE IF s[i] = "-" \/ s[i] \in Digits THEN ScanNumber(s, i)
    \* true
    ELSE IF OccursAt(<<"t","r","u","e">>, s, i) THEN ParseOk(PyBool(TRUE), i + 4)
    \* false
    ELSE IF OccursAt(<<"f","a","l","s","e">>, s, i) THEN ParseOk(PyBool(FALSE), i + 5)
    \* null
    ELSE IF OccursAt(<<"n","u","l","l">>, s, i) THEN ParseOk(PyNone, i + 4)
    ELSE ParseFail

\* the value r is the whole text: only whitespace follows it
Whole(text, r) == IF r.ok /\ SkipSpace(text, r.next) = Len(text) + 1 THEN r ELSE ParseFail

\* json.loads(text): [ok |-> FALSE, ...] stands for json.JSONDecodeError
json_loads(text) == Whole(text, ParseValue(text, SkipSpace(text, 1)))

RECURSIVE Concat(_)
Concat(seqs) == IF seqs = <<>> THEN <<>> ELSE Head(seqs) \o Concat(Tail(seqs))

\* the text of a str inside json.dumps: quotes and backslashes escaped
Escaped(s) ==
    Concat([i \in DOMAIN s |-> IF s[i] \in {"\"", "\\"} THEN <<"\\", s[i]>> ELSE <<s[i]>>])

\* json.dumps(x) with the default separators ", " and ": "
RECURSIVE json_dumps(_)
json_dumps(x) ==
    \* null
    CASE x.t = "None" -> <<"n","u","l","l">>
      [] x.t = "bool" -> x.v
      [] x.t = "int"  -> x.v
      [] x.t = "str"  -> <<"\"">> \o Escaped(x.v) \o <<"\"">>
      [] x.t = "list" ->
            <<"[">> \o Concat([i \in DOMAIN x.v |->
                      \* ,    ]
                      (IF i > 1 THEN <<","," ">> ELSE <<>>) \o json_dumps(x.v[i])]) \o <<"]">>
      [] x.t = "dict" ->
            <<"{">> \o Concat([i \in DOMAIN x.v |->
                      \* , 
                      (IF i > 1 THEN <<","," ">> ELSE <<>>) \o <<"\"">> \o Escaped(x.v[i][1])
                      \* ":    }
                      \o <<"\"",":"," ">> \o json_dumps(x.v[i][2])]) \o <<"}">>

----------------------------------------------------------------------------
(* MongoDBManager.execute_query: the nested helpers.                       *)

SAFE_STRING_COMMANDS == {
    \* show collections
    <<"s","h","o","w"," ","c","o","l","l","e","c","t","i","o","n","s">>,
    \* show dbs
    <<"s","h","o","w"," ","d","b","s">>,
    \* show databases
    <<"s","h","o","w"," ","d","a","t","a","b","a","s","e","s">>,
    \* db stats
    <<"d","b"," ","s","t","a","t","s">>,
    \* db.stats()
    <<"d","b",".","s","t","a","t","s","(",")">>,
    \* show profile
    <<"s","h","o","w"," ","p","r","o","f","i","l","e">>,
    \* db.getProfilingStatus()
    <<"d","b",".","g","e","t","P","r","o","f","i","l","i","n","g","S","t","a","t","u","s","(",")">>,
    \* db.version()
    <<"d","b",".","v","e","r","s","i","o","n","(",")">> }

SAFE_DICT_OPERATIONS == {
    \* find   count   distinct   aggregate   findOne
    <<"f","i","n","d">>, <<"c","o","u","n","t">>, <<"d","i","s","t","i","n","c","t">>, <<"a","g","g","r","e","g","a","t","e">>, <<"f","i","n","d","O","n","e">>,
    \* countDocuments   estimatedDocumentCount
    <<"c","o","u","n","t","D","o","c","u","m","e","n","t","s">>, <<"e","s","t","i","m","a","t","e","d","D","o","c","u","m","e","n","t","C","o","u","n","t">>,
    \* listCollections   dbstats   collstats   dataSize   dbStats
    <<"l","i","s","t","C","o","l","l","e","c","t","i","o","n","s">>, <<"d","b","s","t","a","t","s">>, <<"c","o","l","l","s","t","a","t","s">>, <<"d","a","t","a","S","i","z","e">>, <<"d","b","S","t","a","t","s">>,
    \* ping   hostInfo   serverInfo
    <<"p","i","n","g">>, <<"h","o","s","t","I","n","f","o">>, <<"s","e","r","v","e","r","I","n","f","o">>,
    \* listIndexes   getParameter   buildInfo   connectionStatus
    <<"l","i","s","t","I","n","d","e","x","e","s">>, <<"g","e","t","P","a","r","a","m","e","t","e","r">>, <<"b","u","i","l","d","I","n","f","o">>, <<"c","o","n","n","e","c","t","i","o","n","S","t","a","t","u","s">>,
    \* serverStatus   validate   profile
    <<"s","e","r","v","e","r","S","t","a","t","u","s">>, <<"v","a","l","i","d","a","t","e">>, <<"p","r","o","f","i","l","e">> }

\* the patterns r"\bword\b" of UNSAFE_PATTERNS
UNSAFE_WORD_PATTERNS == {
    \* insert   update   delete   remove
    <<"i","n","s","e","r","t">>, <<"u","p","d","a","t","e">>, <<"d","e","l","e","t","e">>, <<"r","e","m","o","v","e">>,
    \* drop   create   replace   rename
    <<"d","r","o","p">>, <<"c","r","e","a","t","e">>, <<"r","e","p","l","a","c","e">>, <<"r","e","n","a","m","e">>,
    \* mapreduce
    <<"m","a","p","r","e","d","u","c","e">>,
    \* createindex   dropindex   createcollection   renameCollection
    <<"c","r","e","a","t","e","i","n","d","e","x">>, <<"d","r","o","p","i","n","d","e","x">>, <<"c","r","e","a","t","e","c","o","l","l","e","c","t","i","o","n">>, <<"r","e","n","a","m","e","C","o","l","l","e","c","t","i","o","n">> }

\* the patterns r"\$name\b" of UNSAFE_PATTERNS
\* $out   $merge
UNSAFE_STAGE_PATTERNS == { <<"$","o","u","t">>, <<"$","m","e","r","g","e">> }

SAFE_OPERATORS == <<
    \* $dateToString   $dateFromString   $dateToparts   $createDate
    <<"$","d","a","t","e","T","o","S","t","r","i","n","g">>, <<"$","d","a","t","e","F","r","o","m","S","t","r","i","n","g">>, <<"$","d","a","t","e","T","o","p","a","r","t","s">>, <<"$","c","r","e","a","t","e","D","a","t","e">> >>

\* re.search(r"\$name\b", s): the literal, then a word boundary
re_search_stage(lit, s) ==
    \E i \in 1..(Len(s) - Len(lit) + 1) :
        OccursAt(lit, s, i) /\ WordBoundary(s, i + Len(lit))

\* one position of s.replace(p, ""): an occurrence of p is skipped
RemoveStep(text, p, i, st) ==
    IF i < st.next THEN st
    ELSE IF OccursAt(p, text, i) THEN [st EXCEPT !.next = i + Len(p)]
    ELSE [st EXCEPT !.out = Append(@, text[i]), !.next = i + 1]

RECURSIVE RemoveLoop(_, _, _, _, _)
RemoveLoop(text, p, lo, hi, st) ==
    IF lo > hi THEN st
    ELSE IF lo = hi THEN RemoveStep(text, p, lo, st)
    ELSE LET mid == (lo + hi) \div 2
             left == RemoveLoop(text, p, lo, mid, st)
         IN  IF left.stop THEN left ELSE RemoveLoop(text, p, mid + 1, hi, left)

\* s.replace(p, ""): every occurrence of p, left to right, removed
remove_all(s, p) == RemoveLoop(s, p, 1, Len(s), Rewriting).out

\* the loop over SAFE_OPERATORS: each one found is removed from the buffer
RECURSIVE StripSafeOperators(_, _)
StripSafeOperators(cmd_lower, k) ==
    IF k > Len(SAFE_OPERATORS) THEN cmd_lower
    ELSE LET safe_op == lower(SAFE_OPERATORS[k])
         IN  StripSafeOperators(
                 IF contains(cmd_lower, safe_op) THEN remove_all(cmd_lower, safe_op)
                 ELSE cmd_lower, k + 1)

mongo_contains_unsafe_operations(cmd_str) ==
    LET cmd_lower == StripSafeOperators(lower(cmd_str), 1)
    IN  \/ \E w \in UNSAFE_WORD_PATTERNS : re_search_word(w, cmd_lower)
        \/ \E st \in UNSAFE_STAGE_PATTERNS : re_search_stage(st, cmd_lower)

\* positions of the first and the second "." of cmd (0 if missing)
FirstDot(cmd, from) ==
    IF \E i \in from..Len(cmd) : cmd[i] = "."
    THEN CHOOSE i \in from..Len(cmd) : cmd[i] = "." /\ \A j \in from..(i-1) : cmd[j] # "."
    ELSE 0

\* a faulty loop body that does not count a "(" inside the parameters
ScanOperations_nested_uncounted(part, i, st) ==
    LET char == part[i]
    IN  IF char = "(" /\ st.depth = 0 THEN
             [st EXCEPT !.op_name = strip(st.current_op), !.param_start = i + 1,
                        !.depth = 1, !.current_op = <<>>]
        ELSE IF char = ")" /\ st.depth > 0 THEN
             [st EXCEPT !.depth = 0,
                        !.op_chain = Append(@,
                            <<st.op_name, strip(SubSeq(part, st.param_start, i - 1))>>)]
        ELSE IF char = "." /\ st.depth = 0 THEN
             [st EXCEPT !.current_op = <<>>]
        ELSE IF st.depth = 0 /\ char # "(" THEN
             [st EXCEPT !.current_op = Append(@, char)]
        ELSE st

\* a faulty loop body that keeps the segments before the operation name
ScanOperations_segments_kept(part, i, st) ==
    LET char == part[i]
    IN  IF char = "(" /\ st.depth = 0 THEN
             [st EXCEPT !.op_name = strip(st.current_op), !.param_start = i + 1,
                        !.depth = 1, !.current_op = <<>>]
        ELSE IF char = "(" /\ st.depth > 0 THEN
             [st EXCEPT !.depth = @ + 1]
        ELSE IF char = ")" /\ st.depth > 0 THEN
             IF st.depth = 1
             THEN [st EXCEPT !.depth = 0,
                             !.op_chain = Append(@,
                                 <<st.op_name, strip(SubSeq(part, st.param_start, i - 1))>>)]
             ELSE [st EXCEPT !.depth = @ - 1]
        ELSE IF char = "." /\ st.depth = 0 /\ st.op_chain # <<>> THEN
             [st EXCEPT !.current_op = <<>>]
        ELSE IF st.depth = 0 THEN
             [st EXCEPT !.current_op = Append(@, char)]
        ELSE st

\* the body of the character loop of parse_shell_command over
\* operation_part; st holds op_chain, current_op, depth, param_start, op_name
ScanOperations(part, i, st) ==
    LET char == part[i]
    IN  IF char = "(" /\ st.depth = 0 THEN
             [st EXCEPT !.op_name = strip(st.current_op), !.param_start = i + 1,
                        !.depth = 1, !.current_op = <<>>]
        ELSE IF char = "(" /\ st.depth > 0 THEN
             [st EXCEPT !.depth = @ + 1]
        ELSE IF char = ")" /\ st.depth > 0 THEN
             IF st.depth = 1
             THEN [st EXCEPT !.depth = 0,
                             !.op_chain = Append(@,
                                 <<st.op_name, strip(SubSeq(part, st.param_start, i - 1))>>)]
             ELSE [st EXCEPT !.depth = @ - 1]
        ELSE IF char = "." /\ st.depth = 0 THEN
             [st EXCEPT !.current_op = <<>>]
        ELSE IF st.depth = 0 THEN
             [st EXCEPT !.current_op = Append(@, char)]
        ELSE st

RECURSIVE OperationsLoop(_, _, _, _)
OperationsLoop(text, lo, hi, st) ==
    IF lo > hi THEN st
    ELSE IF lo = hi THEN ScanOperations(text, lo, st)
    ELSE LET mid == (lo + hi) \div 2
             left == OperationsLoop(text, lo, mid, st)
         IN  IF left.stop THEN left ELSE OperationsLoop(text, mid + 1, hi, left)

\* (None, None, None, None)
NoParse == [parsed |-> FALSE, collection_name |-> <<>>, primary_op |-> <<>>,
            primary_params |-> <<>>, chained_ops |-> <<>>]

parse_shell_command(cmd) ==
    \* db.
    IF ~startswith(cmd, <<"d","b",".">>) THEN NoParse
    ELSE LET d1 == FirstDot(cmd, 1)
             d2 == FirstDot(cmd, d1 + 1)
         IN  IF d2 = 0 THEN NoParse       \* cmd.split(".", 2) has fewer than 3 parts
             ELSE LET collection_name == SubSeq(cmd, d1 + 1, d2 - 1)
                      operation_part == SubSeq(cmd, d2 + 1, Len(cmd))
                      op_chain == OperationsLoop(operation_part, 1, Len(operation_part),
                                     [op_chain |-> <<>>, current_op |-> <<>>, depth |-> 0,
                                      param_start |-> 0, op_name |-> <<>>,
                                      stop |-> FALSE]).op_chain
                  IN  IF op_chain = <<>> THEN NoParse
                      ELSE [parsed |-> TRUE,
                            collection_name |-> collection_name,
                            primary_op |-> op_chain[1][1],
                            primary_params |-> op_chain[1][2],
                            chained_ops |-> Tail(op_chain)]

\* last position of the run of \w characters that starts at i
WordEnd(s, i) == FirstNotIn(s, i, WordChars) - 1

\* re.sub(r'(\w+)(?=\s*:)', r'"\1"', s): every run of \w characters that is
\* followed by optional whitespace and a colon is put in double quotes
QuoteStep(s, i, st) ==
    IF i < st.next THEN st
    ELSE IF s[i] \in WordChars THEN
        LET e == WordEnd(s, i)
            c == SkipSpace(s, e + 1)
            run == SubSeq(s, i, e)
        IN  [st EXCEPT !.next = e + 1,
                       !.out = @ \o (IF c <= Len(s) /\ s[c] = ":"
                                     THEN <<"\"">> \o run \o <<"\"">> ELSE run)]
    ELSE [st EXCEPT !.out = Append(@, s[i]), !.next = i + 1]

RECURSIVE QuoteLoop(_, _, _, _)
QuoteLoop(text, lo, hi, st) ==
    IF lo > hi THEN st
    ELSE IF lo = hi THEN QuoteStep(text, lo, st)
    ELSE LET mid == (lo + hi) \div 2
             left == QuoteLoop(text, lo, mid, st)
         IN  IF left.stop THEN left ELSE QuoteLoop(text, mid + 1, hi, left)

quote_bare_keys(s) == QuoteLoop(s, 1, Len(s), Rewriting).out

Quotes == {"\"", "'"}

\* end of the match of ObjectId\(["'](.+?)["']\) that starts at i: the
\* position of the closing ")" (0 if no match)
ObjectIdMatchEnd(s, i) ==
    \* ObjectId(
    IF OccursAt(<<"O","b","j","e","c","t","I","d","(">>, s, i) /\ i + 9 <= Len(s) /\ s[i + 9] \in Quotes
    THEN LET ends == {k \in (i + 11)..(Len(s) - 1) :
                         /\ s[k] \in Quotes /\ s[k + 1] = ")"
                         /\ \A m \in (i + 10)..(k - 1) : s[m] # "\n"}
         IN  IF ends = {} THEN 0
             ELSE (CHOOSE k \in ends : \A m \in ends : k <= m) + 1
    ELSE 0

\* re.sub(r'ObjectId\(["\'](.+?)["\']\)', r'{"$oid": "\1"}', s)
ObjectIdStep(s, i, st) ==
    IF i < st.next THEN st
    ELSE LET e == ObjectIdMatchEnd(s, i)
         IN  IF e > 0
             THEN [st EXCEPT !.next = e + 1,
                             \* {"$oid": "   "}
                             !.out = @ \o <<"{","\"","$","o","i","d","\"",":"," ","\"">> \o SubSeq(s, i + 10, e - 2) \o <<"\"","}">>]
             ELSE [st EXCEPT !.out = Append(@, s[i]), !.next = i + 1]

RECURSIVE ObjectIdLoop(_, _, _, _)
ObjectIdLoop(text, lo, hi, st) ==
    IF lo > hi THEN st
    ELSE IF lo = hi THEN ObjectIdStep(text, lo, st)
    ELSE LET mid == (lo + hi) \div 2
             left == ObjectIdLoop(text, lo, mid, st)
         IN  IF left.stop THEN left ELSE ObjectIdLoop(text, mid + 1, hi, left)

rewrite_objectid(s) == ObjectIdLoop(s, 1, Len(s), Rewriting).out

\* what a helper hands back: a value, or an exception raised
Returned(val) == [raised |-> FALSE, val |-> val]
Raised == [raised |-> TRUE, val |-> PyNone]

\* `return json.loads(...)` inside try: the value, or what the except
\* branch does
Loaded(r, otherwise) == IF r.ok THEN Returned(r.val) ELSE otherwise

\* safe_eval_params without the attempt that quotes bare keys
safe_eval_params_bare_keys_skipped(params_str) ==
    IF strip(params_str) = <<>> THEN Returned(PyDict(<<>>))
    ELSE Loaded(json_loads(params_str),
           \* ObjectId
           IF contains(params_str, <<"O","b","j","e","c","t","I","d">>)
           THEN Loaded(json_loads(rewrite_objectid(params_str)), Raised)
           ELSE Returned(PyNone))

safe_eval_params(params_str) ==
    IF strip(params_str) = <<>> THEN Returned(PyDict(<<>>))
    ELSE Loaded(json_loads(params_str),
           Loaded(json_loads(quote_bare_keys(params_str)),
             \* ObjectId
             IF contains(params_str, <<"O","b","j","e","c","t","I","d">>)
             THEN Loaded(json_loads(rewrite_objectid(params_str)),
                         Raised)               \* ValueError
             ELSE Returned(PyNone)))           \* the function ends without a return

----------------------------------------------------------------------------
(* What one call of a manager method does: the driver calls it issues, in  *)
(* order, the value it returns and the log lines it writes.  how tells how *)
(* a part of the method ended: "return", "raise" (an exception left it) or *)
(* "fall" (it ended without returning).                                    *)

Call(fn, target, args) == [fn |-> fn, target |-> target, args |-> args]

RetNone == [kind |-> "None", msg |-> ""]
RetError(msg) == [kind |-> "error", msg |-> msg]
RetScalar == [kind |-> "scalar", msg |-> ""]
RetTrue == [kind |-> "True", msg |-> ""]
RetFalse == [kind |-> "False", msg |-> ""]
RetDataFrame == [kind |-> "dataframe", msg |-> ""]
\* no value: an exception leaves the method
RetRaise(msg) == [kind |-> "raise", msg |-> msg]
\* a faulty list result that hands back None when nothing was found
RetList_nothing_as_none(outcome) ==
    [kind |-> IF outcome = "empty" THEN "None" ELSE "rows", msg |-> ""]

\* a list result: list(cursor) / fetchall() with documents or rows, or []
RetList(outcome) == [kind |-> IF outcome = "empty" THEN "empty" ELSE "rows", msg |-> ""]

Res(calls, ret, log) == [calls |-> calls, ret |-> ret, log |-> log, how |-> "return"]
Thrown(calls) == [calls |-> calls, ret |-> RetNone, log |-> <<>>, how |-> "raise"]
Fell(calls) == [calls |-> calls, ret |-> RetNone, log |-> <<>>, how |-> "fall"]

\* the driver call `call` is made as the last call after `calls`; the
\* driver raises when outcome = "fault", else the method returns ret
Issue(calls, call, outcome, ret) ==
    IF outcome = "fault" THEN Thrown(Append(calls, call))
    ELSE Res(Append(calls, call), ret, <<>>)

\* `json.loads(json_util.dumps(result)) if result else []`
ListResult(calls, call, outcome) == Issue(calls, call, outcome, RetList(outcome))

\* int(text.strip()) succeeds
IsIntLiteral(text) ==
    LET s == strip(text)
        d == IF s # <<>> /\ s[1] \in {"-", "+"} THEN Tail(s) ELSE s
    IN  d # <<>> /\ \A i \in DOMAIN d : d[i] \in Digits

----------------------------------------------------------------------------
(* MongoDBManager.execute_query: shell syntax db.collection.method().      *)

\* the loop over chained_ops after collection.find(filter_dict)
RECURSIVE FindChain(_, _, _, _, _)
FindChain(coll, filter_dict, ops, calls, outcome) ==
    IF ops = <<>>
    THEN \* list(cursor)
         IF outcome = "fault" THEN Thrown(calls) ELSE Res(calls, RetList(outcome), <<>>)
    ELSE LET op_name == ops[1][1]
             op_params == ops[1][2]
         \* count
         IN  IF op_name = <<"c","o","u","n","t">> THEN
                 Issue(calls, Call("count_documents", coll, <<filter_dict>>), outcome, RetScalar)
             \* sort
             ELSE IF op_name = <<"s","o","r","t">> THEN
                 LET sort_params == safe_eval_params(op_params)
                 IN  IF sort_params.raised \/ sort_params.val.t # "dict"
                     THEN Thrown(calls)       \* ValueError, or no .items()
                     ELSE FindChain(coll, filter_dict, Tail(ops),
                              Append(calls, Call("sort", coll, <<sort_params.val>>)), outcome)
             \* limit
             ELSE IF op_name = <<"l","i","m","i","t">> THEN
                 IF ~IsIntLiteral(op_params) THEN Thrown(calls)
                 ELSE FindChain(coll, filter_dict, Tail(ops),
                          Append(calls, Call("limit", coll, <<PyInt(strip(op_params))>>)), outcome)
             \* skip
             ELSE IF op_name = <<"s","k","i","p">> THEN
                 IF ~IsIntLiteral(op_params) THEN Thrown(calls)
                 ELSE FindChain(coll, filter_dict, Tail(ops),
                          Append(calls, Call("skip", coll, <<PyInt(strip(op_params))>>)), outcome)
             \* project   projection
             ELSE IF op_name = <<"p","r","o","j","e","c","t">> \/ op_name = <<"p","r","o","j","e","c","t","i","o","n">> THEN
                 \* safe_eval_params, then cursor.projection: a pymongo Cursor
                 \* has no such attribute (AttributeError)
                 Thrown(calls)
             ELSE FindChain(coll, filter_dict, Tail(ops), calls, outcome)

\* a faulty stage test that finds every stage safe
StageCheck_every_stage_safe(stage) == "safe"

\* `"$out" in stage or "$merge" in stage`; "raise" for a stage that
\* supports no `in` (TypeError)
StageCheck(stage) ==
    \* $out   $merge
    CASE stage.t = "dict" -> IF HasKey(stage, <<"$","o","u","t">>) \/ HasKey(stage, <<"$","m","e","r","g","e">>)
                              THEN "unsafe" ELSE "safe"
      \* $out   $merge
      [] stage.t = "str"  -> IF contains(stage.v, <<"$","o","u","t">>) \/ contains(stage.v, <<"$","m","e","r","g","e">>)
                              THEN "unsafe" ELSE "safe"
      [] stage.t = "list" -> IF \E i \in DOMAIN stage.v :
                                     \* $out   $merge
                                     stage.v[i] \in {PyStr(<<"$","o","u","t">>), PyStr(<<"$","m","e","r","g","e">>)}
                              THEN "unsafe" ELSE "safe"
      [] OTHER            -> "raise"

\* the stages `for stage in pipeline` visits ("raise": not iterable)
Stages(pipeline) ==
    CASE pipeline.t = "list" -> pipeline.v
      [] pipeline.t = "dict" -> [i \in DOMAIN pipeline.v |-> PyStr(pipeline.v[i][1])]
      [] pipeline.t = "str"  -> [i \in DOMAIN pipeline.v |-> PyStr(<<pipeline.v[i]>>)]
      [] OTHER               -> <<>>

Iterable(pipeline) == pipeline.t \in {"list", "dict", "str"}

\* the stage loop: "unsafe" at the first stage holding $out or $merge,
\* "raise" at the first stage that cannot be inspected, else "safe"
RECURSIVE PipelineCheck(_)
PipelineCheck(stages) ==
    IF stages = <<>> THEN "safe"
    ELSE LET c == StageCheck(Head(stages))
         IN  IF c = "safe" THEN PipelineCheck(Tail(stages)) ELSE c

UnsafeStage ==
    Res(<<>>, RetError("Unsafe aggregation stage detected"),
        <<"Blocked unsafe aggregation stage">>)

\* a faulty splitter body that counts no bracket: every comma splits
SplitStep_depth_uncounted(text, i, st) ==
    IF text[i] = ","
    THEN [st EXCEPT !.params = Append(@, strip(st.current_param)), !.current_param = <<>>]
    ELSE [st EXCEPT !.current_param = Append(@, text[i])]

\* the distinct argument splitter: the loop body (st holds params,
\* current_param, depth) and the loop with what follows it
SplitStep(text, i, st) ==
    LET char == text[i]
    IN  IF char \in {"{", "["} THEN
             [st EXCEPT !.depth = @ + 1, !.current_param = Append(@, char)]
        ELSE IF char \in {"}", "]"} THEN
             [st EXCEPT !.depth = @ - 1, !.current_param = Append(@, char)]
        ELSE IF char = "," /\ st.depth = 0 THEN
             [st EXCEPT !.params = Append(@, strip(st.current_param)),
                        !.current_param = <<>>]
        ELSE [st EXCEPT !.current_param = Append(@, char)]

RECURSIVE SplitLoop(_, _, _, _)
SplitLoop(text, lo, hi, st) ==
    IF lo > hi THEN st
    ELSE IF lo = hi THEN SplitStep(text, lo, st)
    ELSE LET mid == (lo + hi) \div 2
             left == SplitLoop(text, lo, mid, st)
         IN  IF left.stop THEN left ELSE SplitLoop(text, mid + 1, hi, left)

SplitParams(text) ==
    LET st == SplitLoop(text, 1, Len(text),
                   [params |-> <<>>, current_param |-> <<>>, depth |-> 0, stop |-> FALSE])
    IN  IF st.current_param # <<>> THEN Append(st.params, strip(st.current_param))
        ELSE st.params

\* `{} if not primary_params.strip() else safe_eval_params(primary_params)`
FilterOf(primary_params) ==
    IF strip(primary_params) = <<>> THEN Returned(PyDict(<<>>))
    ELSE safe_eval_params(primary_params)

\* the try block that processes the primary operation
ShellOperation(p, outcome) ==
    LET coll == p.collection_name
        primary_op == p.primary_op
        primary_params == p.primary_params
    \* findOne
    IN  IF primary_op = <<"f","i","n","d","O","n","e">> THEN
            LET f == FilterOf(primary_params)
            IN  IF f.raised THEN Thrown(<<>>)
                ELSE Issue(<<>>, Call("find_one", coll, <<f.val>>), outcome,
                           IF outcome = "empty" THEN RetNone ELSE RetScalar)
        \* find
        ELSE IF primary_op = <<"f","i","n","d">> THEN
            LET f == FilterOf(primary_params)
            IN  IF f.raised THEN Thrown(<<>>)
                ELSE FindChain(coll, f.val, p.chained_ops,
                               <<Call("find", coll, <<f.val>>)>>, outcome)
        \* aggregate
        ELSE IF primary_op = <<"a","g","g","r","e","g","a","t","e">> THEN
            LET pl == IF strip(primary_params) # <<>> THEN safe_eval_params(primary_params)
                      ELSE Returned(PyList(<<>>))
            IN  IF pl.raised \/ ~Iterable(pl.val) THEN Thrown(<<>>)
                ELSE LET c == PipelineCheck(Stages(pl.val))
                     IN  IF c = "unsafe" THEN UnsafeStage
                         ELSE IF c = "raise" THEN Thrown(<<>>)
                         ELSE ListResult(<<>>, Call("aggregate", coll, <<pl.val>>), outcome)
        \* count   countDocuments
        ELSE IF primary_op \in {<<"c","o","u","n","t">>, <<"c","o","u","n","t","D","o","c","u","m","e","n","t","s">>} THEN
            LET f == FilterOf(primary_params)
            IN  IF f.raised THEN Thrown(<<>>)
                ELSE Issue(<<>>, Call("count_documents", coll, <<f.val>>), outcome, RetScalar)
        \* estimatedDocumentCount
        ELSE IF primary_op = <<"e","s","t","i","m","a","t","e","d","D","o","c","u","m","e","n","t","C","o","u","n","t">> THEN
            Issue(<<>>, Call("estimated_document_count", coll, <<>>), outcome, RetScalar)
        \* distinct
        ELSE IF primary_op = <<"d","i","s","t","i","n","c","t">> THEN
            LET params == SplitParams(primary_params)
            IN  IF Len(params) >= 1 THEN
                    LET key == strip_chars(strip(params[1]), Quotes)
                        f == IF Len(params) < 2 THEN Returned(PyDict(<<>>))
                             ELSE safe_eval_params(params[2])
                    IN  IF f.raised THEN Thrown(<<>>)
                        ELSE ListResult(<<>>, Call("distinct", coll, <<PyStr(key), f.val>>), outcome)
                ELSE Fell(<<>>)
        \* stats
        ELSE IF primary_op = <<"s","t","a","t","s">> THEN
            \* collstats
            Issue(<<>>, Call("command", <<>>, <<PyStr(<<"c","o","l","l","s","t","a","t","s">>), PyStr(coll)>>), outcome, RetScalar)
        \* explain
        ELSE IF primary_op = <<"e","x","p","l","a","i","n">> THEN
            LET f == safe_eval_params(primary_params)
            IN  IF f.raised THEN Thrown(<<>>)
                ELSE Issue(<<Call("find", coll, <<f.val>>)>>, Call("explain", coll, <<>>),
                           outcome, RetScalar)
        ELSE Fell(<<>>)

\* "Command not recognized"
Unsupported(calls) ==
    Res(calls, RetError("Command not supported in read-only mode"),
        <<"Unsupported or potentially unsafe string command">>)

\* the final else of a branch: r fell through every `if` and `elif`
Supported(r) == IF r.how = "fall" THEN Unsupported(r.calls) ELSE r

\* `except Exception as e`: an exception that left the try block becomes
\* the error result msg, logged as log
Caught(r, msg, log) == IF r.how = "raise" THEN Res(r.calls, RetError(msg), <<log>>) ELSE r

\* the branch `elif cmd.startswith("db.")`
ShellCommand(cmd, outcome) ==
    LET p == parse_shell_command(cmd)
    \* getCollectionNames()
    IN  IF p.parsed /\ p.collection_name = <<"g","e","t","C","o","l","l","e","c","t","i","o","n","N","a","m","e","s","(",")">> THEN
            ListResult(<<>>, Call("list_collection_names", <<>>, <<>>), outcome)
        ELSE IF ~p.parsed \/ p.collection_name = <<>> \/ p.primary_op = <<>> THEN
            Res(<<>>, RetError("Invalid MongoDB shell command format"),
                <<"Could not parse MongoDB shell command">>)
        ELSE Caught(Supported(ShellOperation(p, outcome)),
                    "Error executing command", "Error executing MongoDB shell command")

\* the branch `if cmd_lower in SAFE_STRING_COMMANDS`
SafeStringCommand(cmd_lower, outcome) ==
    \* show collections
    IF cmd_lower = <<"s","h","o","w"," ","c","o","l","l","e","c","t","i","o","n","s">> THEN
        Issue(<<>>, Call("list_collection_names", <<>>, <<>>), outcome, RetList(outcome))
    \* show dbs   show databases
    ELSE IF cmd_lower \in {<<"s","h","o","w"," ","d","b","s">>, <<"s","h","o","w"," ","d","a","t","a","b","a","s","e","s">>} THEN
        Issue(<<>>, Call("list_database_names", <<>>, <<>>), outcome, RetList(outcome))
    \* db stats   db.stats()
    ELSE IF cmd_lower \in {<<"d","b"," ","s","t","a","t","s">>, <<"d","b",".","s","t","a","t","s","(",")">>} THEN
        \* dbstats
        Issue(<<>>, Call("command", <<>>, <<PyStr(<<"d","b","s","t","a","t","s">>)>>), outcome, RetScalar)
    \* show profile
    ELSE IF cmd_lower = <<"s","h","o","w"," ","p","r","o","f","i","l","e">> THEN
        \* profile   -1
        Issue(<<>>, Call("command", <<>>, <<PyStr(<<"p","r","o","f","i","l","e">>), PyInt(<<"-","1">>)>>), outcome, RetScalar)
    \* db.getProfilingStatus()
    ELSE IF cmd_lower = <<"d","b",".","g","e","t","P","r","o","f","i","l","i","n","g","S","t","a","t","u","s","(",")">> THEN
        \* profile   -1
        Issue(<<>>, Call("command", <<>>, <<PyStr(<<"p","r","o","f","i","l","e">>), PyInt(<<"-","1">>)>>), outcome, RetScalar)
    \* db.version()
    ELSE IF cmd_lower = <<"d","b",".","v","e","r","s","i","o","n","(",")">> THEN
        \* buildInfo
        Issue(<<>>, Call("command", <<>>, <<PyStr(<<"b","u","i","l","d","I","n","f","o">>)>>), outcome, RetScalar)
    ELSE Fell(<<>>)

BlockedUnsafe ==
    Res(<<>>, RetError("Operation blocked - only read operations are permitted"),
        <<"Blocked unsafe operation in command">>)

\* the branch `if isinstance(raw_command, str)`
StringCommand(raw_command, outcome) ==
    LET cmd == strip(raw_command.v)
        cmd_lower == lower(cmd)
    IN  IF mongo_contains_unsafe_operations(cmd_lower) THEN BlockedUnsafe
        ELSE IF cmd_lower \in SAFE_STRING_COMMANDS THEN
            Supported(SafeStringCommand(cmd_lower, outcome))
        \* db.
        ELSE IF startswith(cmd, <<"d","b",".">>) THEN ShellCommand(cmd, outcome)
        ELSE Unsupported(<<>>)

----------------------------------------------------------------------------
(* MongoDBManager.execute_query: dict commands.                            *)

EmptyDict == PyDict(<<>>)

\* the cursor calls of the find branch after find(): each option that is
\* truthy adds its call, in the order sort, limit, skip, hint, max_time_ms
RECURSIVE CursorOptions(_, _, _, _)
CursorOptions(raw_command, coll, options, calls) ==
    IF options = <<>> THEN calls
    ELSE LET option == GetOr(raw_command, Head(options)[1], PyNone)
         IN  CursorOptions(raw_command, coll, Tail(options),
                 IF Truthy(option) THEN Append(calls, Call(Head(options)[2], coll, <<option>>))
                 ELSE calls)

FindOptions == <<
    \* sort
    <<<<"s","o","r","t">>, "sort">>,
    \* limit
    <<<<"l","i","m","i","t">>, "limit">>,
    \* skip
    <<<<"s","k","i","p">>, "skip">>,
    \* hint
    <<<<"h","i","n","t">>, "hint">>,
    \* maxTimeMS
    <<<<"m","a","x","T","i","m","e","M","S">>, "max_time_ms">> >>

\* `projection or {}`
ProjectionOf(raw_command) ==
    \* projection
    LET projection == GetOr(raw_command, <<"p","r","o","j","e","c","t","i","o","n">>, PyNone)
    IN  IF Truthy(projection) THEN projection ELSE EmptyDict

\* the first of count, countDocuments, distinct, aggregate that is a key
\* count   countDocuments   distinct   aggregate
CollectionOps == <<<<"c","o","u","n","t">>, <<"c","o","u","n","t","D","o","c","u","m","e","n","t","s">>, <<"d","i","s","t","i","n","c","t">>, <<"a","g","g","r","e","g","a","t","e">>>>

FirstCollectionOp(raw_command) ==
    CollectionOps[CHOOSE k \in DOMAIN CollectionOps :
                     /\ HasKey(raw_command, CollectionOps[k])
                     /\ \A j \in 1..(k-1) : ~HasKey(raw_command, CollectionOps[j])]

\* the branch `elif isinstance(raw_command, dict)` after the deny-list
DictOperation(raw_command, outcome) ==
    \* find
    IF HasKey(raw_command, <<"f","i","n","d">>) THEN
        \* find
        LET coll_name == Get(raw_command, <<"f","i","n","d">>)
            \* filter
            filter_ == GetOr(raw_command, <<"f","i","l","t","e","r">>, EmptyDict)
        IN  IF coll_name.t # "str" THEN Thrown(<<>>)
            ELSE LET calls == CursorOptions(raw_command, coll_name.v, FindOptions,
                                 <<Call("find", coll_name.v,
                                        <<filter_, ProjectionOf(raw_command)>>)>>)
                 IN  IF outcome = "fault" THEN Thrown(calls)
                     ELSE Res(calls, RetList(outcome), <<>>)
    \* findOne
    ELSE IF HasKey(raw_command, <<"f","i","n","d","O","n","e">>) THEN
        \* findOne
        LET coll_name == Get(raw_command, <<"f","i","n","d","O","n","e">>)
            \* filter
            filter_ == GetOr(raw_command, <<"f","i","l","t","e","r">>, EmptyDict)
        IN  IF coll_name.t # "str" THEN Thrown(<<>>)
            ELSE Issue(<<>>, Call("find_one", coll_name.v, <<filter_, ProjectionOf(raw_command)>>),
                       outcome, IF outcome = "empty" THEN RetNone ELSE RetScalar)
    ELSE IF \E k \in DOMAIN CollectionOps : HasKey(raw_command, CollectionOps[k]) THEN
        LET op == FirstCollectionOp(raw_command)
            coll_name == Get(raw_command, op)
            \* filter
            filter_ == GetOr(raw_command, <<"f","i","l","t","e","r">>, EmptyDict)
        IN  IF coll_name.t # "str" THEN Thrown(<<>>)
            \* count   countDocuments
            ELSE IF op \in {<<"c","o","u","n","t">>, <<"c","o","u","n","t","D","o","c","u","m","e","n","t","s">>} THEN
                Issue(<<>>, Call("count_documents", coll_name.v, <<filter_>>), outcome, RetScalar)
            \* distinct
            ELSE IF op = <<"d","i","s","t","i","n","c","t">> THEN
                \* key
                LET key == GetOr(raw_command, <<"k","e","y">>, PyNone)
                IN  IF ~Truthy(key)
                    THEN Res(<<>>, RetError("distinct operation requires a 'key' parameter"), <<>>)
                    ELSE ListResult(<<>>, Call("distinct", coll_name.v, <<key, filter_>>), outcome)
            ELSE
                \* pipeline
                LET pipeline == GetOr(raw_command, <<"p","i","p","e","l","i","n","e">>, PyList(<<>>))
                IN  IF ~Iterable(pipeline) THEN Thrown(<<>>)
                    ELSE LET c == PipelineCheck(Stages(pipeline))
                         IN  IF c = "unsafe" THEN UnsafeStage
                             ELSE IF c = "raise" THEN Thrown(<<>>)
                             ELSE ListResult(<<>>, Call("aggregate", coll_name.v, <<pipeline>>), outcome)
    \* listCollections
    ELSE IF HasKey(raw_command, <<"l","i","s","t","C","o","l","l","e","c","t","i","o","n","s">>) THEN
        ListResult(<<>>, Call("list_collections", <<>>,
                              \* filter
                              <<GetOr(raw_command, <<"f","i","l","t","e","r">>, EmptyDict)>>), outcome)
    \* collStats   collstats
    ELSE IF HasKey(raw_command, <<"c","o","l","l","S","t","a","t","s">>) \/ HasKey(raw_command, <<"c","o","l","l","s","t","a","t","s">>) THEN
        \* collStats
        LET first == GetOr(raw_command, <<"c","o","l","l","S","t","a","t","s">>, PyNone)
            \* collstats
            coll_name == IF Truthy(first) THEN first ELSE GetOr(raw_command, <<"c","o","l","l","s","t","a","t","s">>, PyNone)
        \* collstats
        IN  Issue(<<>>, Call("command", <<>>, <<PyStr(<<"c","o","l","l","s","t","a","t","s">>), coll_name>>), outcome, RetScalar)
    ELSE
        \* operation = next(iter(raw_command), None)
        IF raw_command.v # <<>> /\ raw_command.v[1][1] \in SAFE_DICT_OPERATIONS
        THEN Issue(<<>>, Call("command", <<>>, <<raw_command>>), outcome, RetScalar)
        ELSE Res(<<>>, RetError("Operation not permitted in read-only mode"),
                 <<"Blocked non-whitelisted operation">>)

DictCommand(raw_command, outcome) ==
    IF mongo_contains_unsafe_operations(json_dumps(raw_command)) THEN BlockedUnsafe
    ELSE DictOperation(raw_command, outcome)

\* execute_query on a manager with client and db set: the outer try block
MongoConnectedQuery(raw_command, outcome) ==
    Caught(IF raw_command.t = "str" THEN StringCommand(raw_command, outcome)
           ELSE IF raw_command.t = "dict" THEN DictCommand(raw_command, outcome)
           ELSE Res(<<>>, RetError("Invalid command format"), <<"Invalid command format">>),
           "Query execution error", "Query execution error")

----------------------------------------------------------------------------
(* PostgresDBManager and MySQLDBManager: execute_query on a manager with a *)
(* connection.  The driver's part is outcome: "rows" and "empty" (the      *)
(* statement ran, fetchall gave rows or none), "no_result" (the statement  *)
(* ran and left nothing to fetch), "fault" (cursor.execute raised) and     *)
(* "broken" (the connection is lost: cursor.execute raises, and so does    *)
(* connection.rollback() in the except block).                             *)

QueryBlocked(msg) ==
    Res(<<>>, RetError(msg), <<"Query blocked: Non-read operation detected in query">>)

PostgresPolicyBlocks(query) ==
    LET normalized_query == upper(strip(query))
    IN  ~is_read_only_query(normalized_query) \/ contains_unsafe_operations(normalized_query)

PostgresConnectedQuery(query, outcome) ==
    IF PostgresPolicyBlocks(query.v)
    THEN QueryBlocked("Operation blocked -  Non-read operation detected in query")
    ELSE LET execute == Call("execute", <<>>, <<query>>)
             fetchall == Call("fetchall", <<>>, <<>>)
             rollback == Call("rollback", <<>>, <<>>)
         IN  IF outcome = "broken" THEN
                 \* rollback() raises inside `except Exception as e:`
                 Res(<<execute, rollback>>, RetRaise("rollback"),
                     <<"Query execution failed">>)
             ELSE IF outcome = "fault" THEN
                 Res(<<execute, rollback>>, RetError("Query execution failed"),
                     <<"Query execution failed">>)
             ELSE IF outcome = "no_result" THEN      \* psycopg2.ProgrammingError
                 Res(<<execute, fetchall, rollback>>,
                     RetError("Unexpected error with read-only query"),
                     <<"Unexpected error with read-only query">>)
             ELSE Res(<<execute, fetchall>>, RetList(outcome),
                      <<"Read query executed successfully">>)

MySQLPolicyBlocks(query) ==
    LET normalized_query == upper(strip(query))
    IN  \/ ~mysql_is_read_only_query(normalized_query)
        \/ mysql_contains_unsafe_operations(normalized_query)

MySQLConnectedQuery(query, outcome) ==
    IF MySQLPolicyBlocks(query.v)
    THEN QueryBlocked("Operation blocked - Non-read operation detected in query")
    ELSE LET execute == Call("execute", <<>>, <<query>>)
             fetchall == Call("fetchall", <<>>, <<>>)
             rollback == Call("rollback", <<>>, <<>>)
         IN  IF outcome = "broken" THEN
                 \* rollback() raises inside `except Exception as e:`
                 Res(<<execute, rollback>>, RetRaise("rollback"),
                     <<"Query execution failed">>)
             ELSE IF outcome = "fault" THEN
                 Res(<<execute, rollback>>, RetError("Query execution failed"),
                     <<"Query execution failed">>)
             ELSE IF outcome = "no_result" THEN      \* "No result set to fetch from"
                 Res(<<execute, fetchall>>, RetList("empty"),
                     <<"Query executed but returned no results">>)
             ELSE Res(<<execute, fetchall>>, RetList(outcome),
                      <<"Read query executed successfully">>)

\* execute_query_to_dataframe of both SQL managers, on a connection:
\* pd.read_sql(query, self.connection)
SqlConnectedDataframe(query, outcome) ==
    LET read_sql == Call("read_sql", <<>>, <<query>>)
    IN  IF outcome = "fault"
        THEN Res(<<read_sql>>, RetNone, <<"Query to DataFrame execution error">>)
        ELSE Res(<<read_sql>>, RetDataFrame, <<"Query to DataFrame executed successfully">>)

----------------------------------------------------------------------------
(* The commands callers submit.  Every text is submitted as written, in    *)
(* upper and in lower case, and with whitespace before and after it.       *)

SqlTexts == {
    \* SELECT * FROM t
    <<"S","E","L","E","C","T"," ","*"," ","F","R","O","M"," ","t">>,
    \* SELECT update_count FROM t
    <<"S","E","L","E","C","T"," ","u","p","d","a","t","e","_","c","o","u","n","t"," ","F","R","O","M"," ","t">>,
    \* SELECT createdAt FROM t
    <<"S","E","L","E","C","T"," ","c","r","e","a","t","e","d","A","t"," ","F","R","O","M"," ","t">>,
    \* SELECT * FROM t WHERE a = 'update'
    <<"S","E","L","E","C","T"," ","*"," ","F","R","O","M"," ","t"," ","W","H","E","R","E"," ","a"," ","="," ","'","u","p","d","a","t","e","'">>,
    \* SELECT CASE WHEN a THEN 1 END FROM t
    <<"S","E","L","E","C","T"," ","C","A","S","E"," ","W","H","E","N"," ","a"," ","T","H","E","N"," ","1"," ","E","N","D"," ","F","R","O","M"," ","t">>,
    \* SELECT * INTO t2 FROM t
    <<"S","E","L","E","C","T"," ","*"," ","I","N","T","O"," ","t","2"," ","F","R","O","M"," ","t">>,
    \* SELECT pg_sleep(10)
    <<"S","E","L","E","C","T"," ","p","g","_","s","l","e","e","p","(","1","0",")">>,
    \* SELECT SLEEP(10)
    <<"S","E","L","E","C","T"," ","S","L","E","E","P","(","1","0",")">>,
    \* SELECT 1; SELECT 2
    <<"S","E","L","E","C","T"," ","1",";"," ","S","E","L","E","C","T"," ","2">>,
    \* SELECT 1; DROP TABLE x
    <<"S","E","L","E","C","T"," ","1",";"," ","D","R","O","P"," ","T","A","B","L","E"," ","x">>,
    \* SELECT 1; SET statement_timeout = 0
    <<"S","E","L","E","C","T"," ","1",";"," ","S","E","T"," ","s","t","a","t","e","m","e","n","t","_","t","i","m","e","o","u","t"," ","="," ","0">>,
    \* SELECT 1; EXECUTE stmt
    <<"S","E","L","E","C","T"," ","1",";"," ","E","X","E","C","U","T","E"," ","s","t","m","t">>,
    \* WITH x AS (SELECT a FROM t) SELECT * FROM x
    <<"W","I","T","H"," ","x"," ","A","S"," ","(","S","E","L","E","C","T"," ","a"," ","F","R","O","M"," ","t",")"," ","S","E","L","E","C","T"," ","*"," ","F","R","O","M"," ","x">>,
    \* WITH x AS (DELETE FROM t RETURNING a) SELECT * FROM x
    <<"W","I","T","H"," ","x"," ","A","S"," ","(","D","E","L","E","T","E"," ","F","R","O","M"," ","t"," ","R","E","T","U","R","N","I","N","G"," ","a",")"," ","S","E","L","E","C","T"," ","*"," ","F","R","O","M"," ","x">>,
    \* WITH x AS (SELECT update_count FROM t) SELECT * FROM x
    <<"W","I","T","H"," ","x"," ","A","S"," ","(","S","E","L","E","C","T"," ","u","p","d","a","t","e","_","c","o","u","n","t"," ","F","R","O","M"," ","t",")"," ","S","E","L","E","C","T"," ","*"," ","F","R","O","M"," ","x">>,
    \* EXPLAIN SELECT * FROM t
    <<"E","X","P","L","A","I","N"," ","S","E","L","E","C","T"," ","*"," ","F","R","O","M"," ","t">>,
    \* SHOW server_version
    <<"S","H","O","W"," ","s","e","r","v","e","r","_","v","e","r","s","i","o","n">>,
    \* DESCRIBE t
    <<"D","E","S","C","R","I","B","E"," ","t">>,
    \* DROP TABLE x
    <<"D","R","O","P"," ","T","A","B","L","E"," ","x">>,
    \* DELETE FROM t
    <<"D","E","L","E","T","E"," ","F","R","O","M"," ","t">>,
    \* UPDATE t SET a = 1
    <<"U","P","D","A","T","E"," ","t"," ","S","E","T"," ","a"," ","="," ","1">>,
    \* INSERT INTO t VALUES (1)
    <<"I","N","S","E","R","T"," ","I","N","T","O"," ","t"," ","V","A","L","U","E","S"," ","(","1",")">>,
    \* SET statement_timeout = 0
    <<"S","E","T"," ","s","t","a","t","e","m","e","n","t","_","t","i","m","e","o","u","t"," ","="," ","0">>,
    <<>> }

MongoTexts == {
    \* show collections
    <<"s","h","o","w"," ","c","o","l","l","e","c","t","i","o","n","s">>,
    \* show dbs
    <<"s","h","o","w"," ","d","b","s">>,
    \* show databases
    <<"s","h","o","w"," ","d","a","t","a","b","a","s","e","s">>,
    \* db stats
    <<"d","b"," ","s","t","a","t","s">>,
    \* db.stats()
    <<"d","b",".","s","t","a","t","s","(",")">>,
    \* show profile
    <<"s","h","o","w"," ","p","r","o","f","i","l","e">>,
    \* db.getProfilingStatus()
    <<"d","b",".","g","e","t","P","r","o","f","i","l","i","n","g","S","t","a","t","u","s","(",")">>,
    \* db.version()
    <<"d","b",".","v","e","r","s","i","o","n","(",")">>,
    \* db.users.find({})
    <<"d","b",".","u","s","e","r","s",".","f","i","n","d","(","{","}",")">>,
    \* db.users.find({"age": 1})
    <<"d","b",".","u","s","e","r","s",".","f","i","n","d","(","{","\"","a","g","e","\"",":"," ","1","}",")">>,
    \* db.users.find({age: 1})
    <<"d","b",".","u","s","e","r","s",".","f","i","n","d","(","{","a","g","e",":"," ","1","}",")">>,
    \* db.users.find({a:{$gt:1}})
    <<"d","b",".","u","s","e","r","s",".","f","i","n","d","(","{","a",":","{","$","g","t",":","1","}","}",")">>,
    \* db.users.find({"_id": ObjectId("5f")})
    <<"d","b",".","u","s","e","r","s",".","f","i","n","d","(","{","\"","_","i","d","\"",":"," ","O","b","j","e","c","t","I","d","(","\"","5","f","\"",")","}",")">>,
    \* db.users.find({_id: ObjectId("5f")})
    <<"d","b",".","u","s","e","r","s",".","f","i","n","d","(","{","_","i","d",":"," ","O","b","j","e","c","t","I","d","(","\"","5","f","\"",")","}",")">>,
    \* db.users.find({update_count: 1})
    <<"d","b",".","u","s","e","r","s",".","f","i","n","d","(","{","u","p","d","a","t","e","_","c","o","u","n","t",":"," ","1","}",")">>,
    \* db.users.find({"createdAt": 1})
    <<"d","b",".","u","s","e","r","s",".","f","i","n","d","(","{","\"","c","r","e","a","t","e","d","A","t","\"",":"," ","1","}",")">>,
    \* db.users.find({"a": "update"})
    <<"d","b",".","u","s","e","r","s",".","f","i","n","d","(","{","\"","a","\"",":"," ","\"","u","p","d","a","t","e","\"","}",")">>,
    \* db.users.find({}).sort({"a": 1}).limit(5)
    <<"d","b",".","u","s","e","r","s",".","f","i","n","d","(","{","}",")",".","s","o","r","t","(","{","\"","a","\"",":"," ","1","}",")",".","l","i","m","i","t","(","5",")">>,
    \* db.users.find({}).limit(5).sort({"a": 1})
    <<"d","b",".","u","s","e","r","s",".","f","i","n","d","(","{","}",")",".","l","i","m","i","t","(","5",")",".","s","o","r","t","(","{","\"","a","\"",":"," ","1","}",")">>,
    \* db.users.find({}).count()
    <<"d","b",".","u","s","e","r","s",".","f","i","n","d","(","{","}",")",".","c","o","u","n","t","(",")">>,
    \* db.users.find({}).limit(5).count()
    <<"d","b",".","u","s","e","r","s",".","f","i","n","d","(","{","}",")",".","l","i","m","i","t","(","5",")",".","c","o","u","n","t","(",")">>,
    \* db.users.find({}).project({"a": 1})
    <<"d","b",".","u","s","e","r","s",".","f","i","n","d","(","{","}",")",".","p","r","o","j","e","c","t","(","{","\"","a","\"",":"," ","1","}",")">>,
    \* db.users.find({}).foo()
    <<"d","b",".","u","s","e","r","s",".","f","i","n","d","(","{","}",")",".","f","o","o","(",")">>,
    \* db.users.find({}).deleteOne({})
    <<"d","b",".","u","s","e","r","s",".","f","i","n","d","(","{","}",")",".","d","e","l","e","t","e","O","n","e","(","{","}",")">>,
    \* db.users.find({}).limit(x)
    <<"d","b",".","u","s","e","r","s",".","f","i","n","d","(","{","}",")",".","l","i","m","i","t","(","x",")">>,
    \* db.users.find({"a": 1}
    <<"d","b",".","u","s","e","r","s",".","f","i","n","d","(","{","\"","a","\"",":"," ","1","}">>,
    \* db.users.find({}).limit(5
    <<"d","b",".","u","s","e","r","s",".","f","i","n","d","(","{","}",")",".","l","i","m","i","t","(","5">>,
    \* db.a.b.find({})
    <<"d","b",".","a",".","b",".","f","i","n","d","(","{","}",")">>,
    \* db.a.b.c.find({"a": 1}).limit(5)
    <<"d","b",".","a",".","b",".","c",".","f","i","n","d","(","{","\"","a","\"",":"," ","1","}",")",".","l","i","m","i","t","(","5",")">>,
    \* db.users.findOne({"a": 1})
    <<"d","b",".","u","s","e","r","s",".","f","i","n","d","O","n","e","(","{","\"","a","\"",":"," ","1","}",")">>,
    \* db.users.findOne({a:{$gt:1}})
    <<"d","b",".","u","s","e","r","s",".","f","i","n","d","O","n","e","(","{","a",":","{","$","g","t",":","1","}","}",")">>,
    \* db.users.aggregate([{"$match": {"a": 1}}])
    <<"d","b",".","u","s","e","r","s",".","a","g","g","r","e","g","a","t","e","(","[","{","\"","$","m","a","t","c","h","\"",":"," ","{","\"","a","\"",":"," ","1","}","}","]",")">>,
    \* db.users.aggregate([{"$match": {"a": 1}}, {"$merge": "x"}])
    <<"d","b",".","u","s","e","r","s",".","a","g","g","r","e","g","a","t","e","(","[","{","\"","$","m","a","t","c","h","\"",":"," ","{","\"","a","\"",":"," ","1","}","}",","," ","{","\"","$","m","e","r","g","e","\"",":"," ","\"","x","\"","}","]",")">>,
    \* db.users.aggregate([{"$out": "x"}, {"$match": {"a": 1}}])
    <<"d","b",".","u","s","e","r","s",".","a","g","g","r","e","g","a","t","e","(","[","{","\"","$","o","u","t","\"",":"," ","\"","x","\"","}",","," ","{","\"","$","m","a","t","c","h","\"",":"," ","{","\"","a","\"",":"," ","1","}","}","]",")">>,
    \* db.users.aggregate([{"$match": {"a": 1}}, {"\\u0024merge": "x"}])
    <<"d","b",".","u","s","e","r","s",".","a","g","g","r","e","g","a","t","e","(","[","{","\"","$","m","a","t","c","h","\"",":"," ","{","\"","a","\"",":"," ","1","}","}",","," ","{","\"","\\","u","0","0","2","4","m","e","r","g","e","\"",":"," ","\"","x","\"","}","]",")">>,
    \* db.users.aggregate([{"\\u0024out": "x"}, {"$match": {"a": 1}}])
    <<"d","b",".","u","s","e","r","s",".","a","g","g","r","e","g","a","t","e","(","[","{","\"","\\","u","0","0","2","4","o","u","t","\"",":"," ","\"","x","\"","}",","," ","{","\"","$","m","a","t","c","h","\"",":"," ","{","\"","a","\"",":"," ","1","}","}","]",")">>,
    \* db.users.count({})
    <<"d","b",".","u","s","e","r","s",".","c","o","u","n","t","(","{","}",")">>,
    \* db.users.countDocuments({"a": 1})
    <<"d","b",".","u","s","e","r","s",".","c","o","u","n","t","D","o","c","u","m","e","n","t","s","(","{","\"","a","\"",":"," ","1","}",")">>,
    \* db.users.estimatedDocumentCount()
    <<"d","b",".","u","s","e","r","s",".","e","s","t","i","m","a","t","e","d","D","o","c","u","m","e","n","t","C","o","u","n","t","(",")">>,
    \* db.users.distinct("a", {"x": {"$in": [1,2,3]}})
    <<"d","b",".","u","s","e","r","s",".","d","i","s","t","i","n","c","t","(","\"","a","\"",","," ","{","\"","x","\"",":"," ","{","\"","$","i","n","\"",":"," ","[","1",",","2",",","3","]","}","}",")">>,
    \* db.users.distinct()
    <<"d","b",".","u","s","e","r","s",".","d","i","s","t","i","n","c","t","(",")">>,
    \* db.users.stats()
    <<"d","b",".","u","s","e","r","s",".","s","t","a","t","s","(",")">>,
    \* db.users.explain({})
    <<"d","b",".","u","s","e","r","s",".","e","x","p","l","a","i","n","(","{","}",")">>,
    \* db.users.deleteOne({})
    <<"d","b",".","u","s","e","r","s",".","d","e","l","e","t","e","O","n","e","(","{","}",")">>,
    \* db.users.insertOne({"a": 1})
    <<"d","b",".","u","s","e","r","s",".","i","n","s","e","r","t","O","n","e","(","{","\"","a","\"",":"," ","1","}",")">>,
    \* db.users.drop()
    <<"d","b",".","u","s","e","r","s",".","d","r","o","p","(",")">>,
    \* db.getCollectionNames()
    <<"d","b",".","g","e","t","C","o","l","l","e","c","t","i","o","n","N","a","m","e","s","(",")">>,
    \* db.getCollectionNames().x()
    <<"d","b",".","g","e","t","C","o","l","l","e","c","t","i","o","n","N","a","m","e","s","(",")",".","x","(",")">>,
    \* hello
    <<"h","e","l","l","o">>,
    <<>> }

Cases == {"asis", "upper", "lower"}

InCase(text, case) ==
    CASE case = "upper" -> upper(text)
      [] case = "lower" -> lower(text)
      [] OTHER          -> text

\* <<case, leading whitespace, trailing whitespace>>
Variants == {
    \* (empty)   (empty)
    <<"asis", <<>>, <<>>>>,
    \*     (empty)
    <<"upper", <<" ">>, <<>>>>,
    \* (empty)   \n
    <<"lower", <<>>, <<"\n">>>>,
    \* \t    
    <<"asis", <<"\t">>, <<" ">>>> }

Variant(text, v) == v[2] \o InCase(text, v[1]) \o v[3]

SqlCommands == {PyStr(Variant(text, v)) : text \in SqlTexts, v \in Variants}

MongoTextCommands == {PyStr(Variant(text, v)) : text \in MongoTexts, v \in Variants}

One(key, val) == PyDict(<< <<key, val>> >>)
\* users
Users == PyStr(<<"u","s","e","r","s">>)
\* $match   a   1
MatchStage == One(<<"$","m","a","t","c","h">>, One(<<"a">>, PyInt(<<"1">>)))

MongoDictCommands == {
    \* find   filter   a   1
    PyDict(<< <<<<"f","i","n","d">>, Users>>, <<<<"f","i","l","t","e","r">>, One(<<"a">>, PyInt(<<"1">>))>> >>),
    \* find   filter
    PyDict(<< <<<<"f","i","n","d">>, Users>>, <<<<"f","i","l","t","e","r">>, EmptyDict>>,
              \* sort   a   1   limit   5
              <<<<"s","o","r","t">>, One(<<"a">>, PyInt(<<"1">>))>>, <<<<"l","i","m","i","t">>, PyInt(<<"5">>)>> >>),
    \* find   filter   update_count   1
    PyDict(<< <<<<"f","i","n","d">>, Users>>, <<<<"f","i","l","t","e","r">>, One(<<"u","p","d","a","t","e","_","c","o","u","n","t">>, PyInt(<<"1">>))>> >>),
    \* find   filter   createdAt   1
    PyDict(<< <<<<"f","i","n","d">>, Users>>, <<<<"f","i","l","t","e","r">>, One(<<"c","r","e","a","t","e","d","A","t">>, PyInt(<<"1">>))>> >>),
    \* find   filter   a   update
    PyDict(<< <<<<"f","i","n","d">>, Users>>, <<<<"f","i","l","t","e","r">>, One(<<"a">>, PyStr(<<"u","p","d","a","t","e">>))>> >>),
    \* findOne   filter   a   1
    PyDict(<< <<<<"f","i","n","d","O","n","e">>, Users>>, <<<<"f","i","l","t","e","r">>, One(<<"a">>, PyInt(<<"1">>))>> >>),
    \* count
    One(<<"c","o","u","n","t">>, Users),
    \* distinct   key   a
    PyDict(<< <<<<"d","i","s","t","i","n","c","t">>, Users>>, <<<<"k","e","y">>, PyStr(<<"a">>)>> >>),
    \* distinct
    One(<<"d","i","s","t","i","n","c","t">>, Users),
    \* aggregate   pipeline
    PyDict(<< <<<<"a","g","g","r","e","g","a","t","e">>, Users>>, <<<<"p","i","p","e","l","i","n","e">>, PyList(<<MatchStage>>)>> >>),
    \* aggregate
    PyDict(<< <<<<"a","g","g","r","e","g","a","t","e">>, Users>>,
              \* pipeline   $merge   x
              <<<<"p","i","p","e","l","i","n","e">>, PyList(<<MatchStage, One(<<"$","m","e","r","g","e">>, PyStr(<<"x">>))>>)>> >>),
    \* aggregate
    PyDict(<< <<<<"a","g","g","r","e","g","a","t","e">>, Users>>,
              \* pipeline   $out   x
              <<<<"p","i","p","e","l","i","n","e">>, PyList(<<One(<<"$","o","u","t">>, PyStr(<<"x">>)), MatchStage>>)>> >>),
    \* listCollections   1
    One(<<"l","i","s","t","C","o","l","l","e","c","t","i","o","n","s">>, PyInt(<<"1">>)),
    \* collStats
    One(<<"c","o","l","l","S","t","a","t","s">>, Users),
    \* ping   1
    One(<<"p","i","n","g">>, PyInt(<<"1">>)),
    \* serverStatus   1
    One(<<"s","e","r","v","e","r","S","t","a","t","u","s">>, PyInt(<<"1">>)),
    \* profile   -1
    One(<<"p","r","o","f","i","l","e">>, PyInt(<<"-","1">>)),
    \* profile   2
    One(<<"p","r","o","f","i","l","e">>, PyInt(<<"2">>)),
    \* insert   documents   a   1
    PyDict(<< <<<<"i","n","s","e","r","t">>, Users>>, <<<<"d","o","c","u","m","e","n","t","s">>, PyList(<<One(<<"a">>, PyInt(<<"1">>))>>)>> >>),
    \* delete   deletes
    PyDict(<< <<<<"d","e","l","e","t","e">>, Users>>, <<<<"d","e","l","e","t","e","s">>, PyList(<<>>)>> >>),
    \* dropDatabase   1
    One(<<"d","r","o","p","D","a","t","a","b","a","s","e">>, PyInt(<<"1">>)),
    \* compact
    One(<<"c","o","m","p","a","c","t">>, Users),
    EmptyDict }

\* raw commands that are neither str nor dict
\* 42
MongoOtherCommands == { PyInt(<<"4","2">>), PyList(<<Users>>), PyNone }

MongoCommands == MongoTextCommands \cup MongoDictCommands \cup MongoOtherCommands

\* the `query` arguments given to MongoDBManager.execute_query_to_dataframe
MongoDataframeQueries ==
    \* a   1   db.users.find({})
    MongoDictCommands \cup {EmptyDict, One(<<"a">>, PyInt(<<"1">>)), PyStr(<<"d","b",".","u","s","e","r","s",".","f","i","n","d","(","{","}",")">>)}

SqlOutcomes == {"rows", "empty", "no_result", "fault", "broken"}
MongoOutcomes == {"docs", "empty", "fault"}

\* The results of the connected managers on these commands, tabulated once
\* (f @@ <<>> is f as an explicit table).
PostgresResults ==
    [c \in SqlCommands \X SqlOutcomes |-> PostgresConnectedQuery(c[1], c[2])] @@ <<>>
MySQLResults ==
    [c \in SqlCommands \X SqlOutcomes |-> MySQLConnectedQuery(c[1], c[2])] @@ <<>>
MongoResults ==
    [c \in (MongoCommands \cup MongoDataframeQueries) \X MongoOutcomes |->
        MongoConnectedQuery(c[1], c[2])] @@ <<>>

----------------------------------------------------------------------------
(* The managers.  backend is the class of the manager, connection stands   *)
(* for `self.connection is not None` (SQL), client and db for              *)
(* `self.client is not None` and `self.db is not None` (MongoDB); last is  *)
(* the last method call: its arguments, what the driver did (outcome), the *)
(* driver calls it issued, its return value and its log lines.             *)

Backends == {"postgres", "mysql", "mongo"}

Done(method, cmd, outcome, r) ==
    [method |-> method, cmd |-> cmd, outcome |-> outcome,
     calls |-> r.calls, ret |-> r.ret, log |-> r.log]

NoCall == Done("__init__", PyNone, "none", Res(<<>>, RetNone, <<>>))

\* The statement timeout of the connection's session, in milliseconds as
\* written: the one the connection was opened with (default), the one in
\* force (statement_timeout: statement_timeout of PostgreSQL,
\* max_execution_time of MySQL) and the one a rollback brings back
\* (committed).
Session(default, statement_timeout, committed) ==
    [default |-> default, statement_timeout |-> statement_timeout, committed |-> committed]

NoSession == Session(<<>>, <<>>, <<>>)

\* The server process of main.py: whether it runs, and the database
\* connections that its requests opened and nothing has closed.
Server(running, open) == [running |-> running, open |-> open]

Serving == Server(TRUE, 0)

\* connection_params['options'] = '-c statement_timeout=300000';
\* "SET max_execution_time = 300000;"
\* 300000
DEFAULT_STATEMENT_TIMEOUT == <<"3","0","0","0","0","0">>
\* "SET statement_timeout = 600000;", "SET max_execution_time = 600000;"
\* 600000
SCHEMA_STATEMENT_TIMEOUT == <<"6","0","0","0","0","0">>
\* max_execution_time of a MySQL session that nothing has set
SERVER_MAX_EXECUTION_TIME == <<"0">>

\* the sessions connect can leave: PostgreSQL gets its timeout with the
\* connection options; MySQL gets it from the SET statements of connect,
\* which "session_failed" may have stopped before or after the first
Opened(b, outcome) ==
    IF b = "mysql" /\ outcome = "session_failed"
    THEN {Session(d, d, d) : d \in {SERVER_MAX_EXECUTION_TIME, DEFAULT_STATEMENT_TIMEOUT}}
    ELSE {Session(DEFAULT_STATEMENT_TIMEOUT, DEFAULT_STATEMENT_TIMEOUT, DEFAULT_STATEMENT_TIMEOUT)}

\* cursor.execute(f"SET statement_timeout = {timeout};") and
\* cursor.execute(f"SET max_execution_time = {timeout};")
SetTimeoutCall(b, timeout) ==
    Call("execute", <<>>,
         \* SET statement_timeout = 
         <<PyStr((IF b = "postgres" THEN <<"S","E","T"," ","s","t","a","t","e","m","e","n","t","_","t","i","m","e","o","u","t"," ","="," ">>
                  \* SET max_execution_time =    ;
                  ELSE <<"S","E","T"," ","m","a","x","_","e","x","e","c","u","t","i","o","n","_","t","i","m","e"," ","="," ">>) \o timeout \o <<";">>)>>)

SetTimeout(s, timeout) == [s EXCEPT !.statement_timeout = timeout]

\* self.connection.commit()
Commit(s) == [s EXCEPT !.committed = s.statement_timeout]

\* self.connection.rollback(): PostgreSQL undoes the SET statements of the
\* open transaction, MySQL's SET is outside transactions
Rollback(b, s) ==
    IF b = "postgres" THEN [s EXCEPT !.statement_timeout = s.committed] ELSE s

\* execute_query(query, timeout=timeout) of the SQL managers, r being what
\* the call does without timeout: `if timeout:` sends the SET before the
\* query; res is the call with it, in_force the timeout the query ran
\* under (<<>> if it was not sent), session the session left behind
Timed(b, r, timeout, s) ==
    LET sets == r.calls # <<>> /\ Truthy(timeout)
        during == IF sets THEN SetTimeout(s, timeout.v) ELSE s
    IN  [res |-> IF sets THEN [r EXCEPT !.calls = <<SetTimeoutCall(b, timeout.v)>> \o @] ELSE r,
         in_force |-> IF r.calls # <<>> THEN during.statement_timeout ELSE <<>>,
         session |-> IF Call("rollback", <<>>, <<>>) \in Range(r.calls) /\ r.ret.kind # "raise"
                     THEN Rollback(b, during) ELSE during]

Init ==
    /\ backend \in Backends
    /\ connection = FALSE
    /\ client = FALSE
    /\ db = FALSE
    /\ session = NoSession
    /\ server = Serving
    /\ last = NoCall

\* PostgresDBManager.connect / MySQLDBManager.connect: the driver connects
\* ("ok"), refuses ("refused"), or connects and then fails the session
\* set-up statements ("session_failed")
SqlConnect ==
    /\ backend \in {"postgres", "mysql"}
    /\ \E outcome \in {"ok", "refused", "session_failed"} :
         /\ connection' = IF outcome = "refused" THEN connection ELSE TRUE
         /\ IF outcome = "refused" THEN session' = session
            ELSE session' \in Opened(backend, outcome)
         /\ last' = Done("connect", PyNone, outcome,
                         IF outcome = "ok"
                         THEN Res(<<Call("connect", <<>>, <<>>), Call("execute", <<>>, <<>>),
                                    Call("commit", <<>>, <<>>)>>,
                                  RetTrue, <<"Database connection successful">>)
                         ELSE IF outcome = "refused"
                         THEN Res(<<Call("connect", <<>>, <<>>)>>, RetFalse,
                                  <<"Database connection failed">>)
                         ELSE Res(<<Call("connect", <<>>, <<>>), Call("execute", <<>>, <<>>)>>,
                                  RetFalse,
                                  <<"Database connection successful", "Database connection failed">>))
    /\ UNCHANGED <<server, backend, client, db>>

SqlDisconnect ==
    /\ backend \in {"postgres", "mysql"}
    /\ connection' = FALSE
    /\ session' = IF connection THEN NoSession ELSE session
    /\ last' = Done("disconnect", PyNone, "none",
                    IF connection
                    THEN Res(<<Call("close", <<>>, <<>>)>>, RetNone, <<"Database connection closed">>)
                    ELSE Res(<<>>, RetNone, <<>>))
    /\ UNCHANGED <<server, backend, client, db>>

NoConnection == Res(<<>>, RetNone, <<"Query execution failed: No active database connection">>)

PostgresDBManager_execute_query(query, outcome) ==
    IF ~connection THEN NoConnection ELSE PostgresResults[<<query, outcome>>]

MySQLDBManager_execute_query(query, outcome) ==
    IF ~connection THEN NoConnection ELSE MySQLResults[<<query, outcome>>]

PostgresDBManager_execute_query_to_dataframe(query, outcome) ==
    IF ~connection THEN Res(<<>>, RetNone, <<"Database not connected">>)
    ELSE SqlConnectedDataframe(query, outcome)

MySQLDBManager_execute_query_to_dataframe(query, outcome) ==
    IF ~connection THEN Res(<<>>, RetNone, <<"Database not connected">>)
    ELSE SqlConnectedDataframe(query, outcome)

\* a call without timeout returns
Leave(method, cmd, outcome, timed) ==
    /\ last' = Done(method, cmd, outcome, timed.res)
    /\ session' = timed.session

PostgresExecuteQuery ==
    /\ backend = "postgres"
    /\ \E query \in SqlCommands, outcome \in SqlOutcomes :
         Leave("execute_query", query, outcome,
               Timed("postgres", PostgresDBManager_execute_query(query, outcome), PyNone, session))
    /\ UNCHANGED <<server, backend, connection, client, db>>

MySQLExecuteQuery ==
    /\ backend = "mysql"
    /\ \E query \in SqlCommands, outcome \in SqlOutcomes :
         Leave("execute_query", query, outcome,
               Timed("mysql", MySQLDBManager_execute_query(query, outcome), PyNone, session))
    /\ UNCHANGED <<server, backend, connection, client, db>>

PostgresExecuteQueryToDataframe ==
    /\ backend = "postgres"
    /\ \E query \in SqlCommands, outcome \in {"rows", "fault"} :
         last' = Done("execute_query_to_dataframe", query, outcome,
                      PostgresDBManager_execute_query_to_dataframe(query, outcome))
    /\ UNCHANGED <<server, backend, connection, client, db, session>>

MySQLExecuteQueryToDataframe ==
    /\ backend = "mysql"
    /\ \E query \in SqlCommands, outcome \in {"rows", "fault"} :
         last' = Done("execute_query_to_dataframe", query, outcome,
                      MySQLDBManager_execute_query_to_dataframe(query, outcome))
    /\ UNCHANGED <<server, backend, connection, client, db, session>>

\* MongoDBManager.connect: MongoClient(...) raises ("client_failed"), the
\* ping fails ("ping_failed"), or the ping succeeds with a database name
\* ("ok") or without one ("ok_no_db_name")
MongoConnect ==
    /\ backend = "mongo"
    /\ \E outcome \in {"ok", "ok_no_db_name", "ping_failed", "client_failed"} :
         /\ client' = IF outcome = "client_failed" THEN client ELSE TRUE
         /\ db' = IF outcome = "ok" THEN TRUE ELSE db
         /\ last' = Done("connect", PyNone, outcome,
                         IF outcome = "client_failed"
                         THEN Res(<<>>, RetFalse, <<"MongoDB connection failed">>)
                         ELSE IF outcome = "ping_failed"
                         THEN Res(<<Call("ping", <<>>, <<>>)>>, RetFalse,
                                  <<"MongoDB connection failed">>)
                         ELSE Res(<<Call("ping", <<>>, <<>>)>>, RetTrue,
                                  <<"MongoDB connection successful">>))
    /\ UNCHANGED <<server, backend, connection, session>>

MongoDisconnect ==
    /\ backend = "mongo"
    /\ client' = FALSE
    /\ db' = IF client THEN FALSE ELSE db
    /\ last' = Done("disconnect", PyNone, "none",
                    IF client
                    THEN Res(<<Call("close", <<>>, <<>>)>>, RetNone, <<"MongoDB connection closed">>)
                    ELSE Res(<<>>, RetNone, <<>>))
    /\ UNCHANGED <<server, backend, connection, session>>

\* as execute_query would be if it tested the client alone
MongoDBManager_execute_query_client_only(raw_command, outcome) ==
    IF ~client THEN Res(<<>>, RetNone, <<"No active MongoDB connection.">>)
    ELSE MongoResults[<<raw_command, outcome>>]

MongoDBManager_execute_query(raw_command, outcome) ==
    IF ~client \/ ~db THEN Res(<<>>, RetNone, <<"No active MongoDB connection.">>)
    ELSE MongoResults[<<raw_command, outcome>>]

\* execute_query_to_dataframe(collection, query, ...): `return self.execute_query(query)`
MongoDBManager_execute_query_to_dataframe(query, outcome) ==
    MongoDBManager_execute_query(query, outcome)

MongoExecuteQuery ==
    /\ backend = "mongo"
    /\ \E raw_command \in MongoCommands, outcome \in MongoOutcomes :
         last' = Done("execute_query", raw_command, outcome,
                      MongoDBManager_execute_query(raw_command, outcome))
    /\ UNCHANGED <<server, backend, connection, client, db, session>>

MongoExecuteQueryToDataframe ==
    /\ backend = "mongo"
    /\ \E query \in MongoDataframeQueries, outcome \in MongoOutcomes :
         last' = Done("execute_query_to_dataframe", query, outcome,
                      MongoDBManager_execute_query_to_dataframe(query, outcome))
    /\ UNCHANGED <<server, backend, connection, client, db, session>>

Next ==
    \/ SqlConnect
    \/ SqlDisconnect
    \/ PostgresExecuteQuery
    \/ MySQLExecuteQuery
    \/ PostgresExecuteQueryToDataframe
    \/ MySQLExecuteQueryToDataframe
    \/ MongoConnect
    \/ MongoDisconnect
    \/ MongoExecuteQuery
    \/ MongoExecuteQueryToDataframe

Spec == Init /\ [][Next]_vars

\* run_query: what the tool answers for the value execute_query handed back
run_query(results) ==
    IF results.kind = "None"
    THEN [text |-> "Query execution failed. Check logs for details.", results |-> RetNone]
    ELSE [text |-> "Query executed successfully. Results: ", results |-> results]

----------------------------------------------------------------------------
(* The SQL managers called with statement timeouts, and their schema       *)
(* introspection: what each call leaves in the session of the connection.  *)
(* The server knows max_execution_time (MySQL 5.7.8 and later).            *)

\* timeout: None, 0 and a number of milliseconds
\* 0   1000
Timeouts == {PyNone, PyInt(<<"0">>), PyInt(<<"1","0","0","0">>)}

\* SELECT * FROM t   DROP TABLE x
TimedQueries == {c \in SqlCommands : c.v \in {<<"S","E","L","E","C","T"," ","*"," ","F","R","O","M"," ","t">>, <<"D","R","O","P"," ","T","A","B","L","E"," ","x">>}}

\* a call with a timeout argument returns
LeaveTimed(method, cmd, timeout, outcome, timed) ==
    /\ last' = Done(method, cmd, outcome, timed.res)
                    @@ [timeout |-> timeout, in_force |-> timed.in_force]
    /\ session' = timed.session

PostgresExecuteQueryTimeout ==
    /\ backend = "postgres"
    /\ \E query \in TimedQueries, timeout \in Timeouts, outcome \in SqlOutcomes :
         LeaveTimed("execute_query", query, timeout, outcome,
                    Timed("postgres", PostgresDBManager_execute_query(query, outcome),
                          timeout, session))
    /\ UNCHANGED <<server, backend, connection, client, db>>

MySQLExecuteQueryTimeout ==
    /\ backend = "mysql"
    /\ \E query \in TimedQueries, timeout \in Timeouts, outcome \in SqlOutcomes :
         LeaveTimed("execute_query", query, timeout, outcome,
                    Timed("mysql", MySQLDBManager_execute_query(query, outcome),
                          timeout, session))
    /\ UNCHANGED <<server, backend, connection, client, db>>

\* execute_query_to_dataframe(query, timeout=timeout): `if timeout:` sends
\* the SET and commits it, before pd.read_sql
TimedDataframe(b, r, timeout, s) ==
    LET sets == r.calls # <<>> /\ Truthy(timeout)
        during == IF sets THEN Commit(SetTimeout(s, timeout.v)) ELSE s
    IN  [res |-> IF sets
                 THEN [r EXCEPT !.calls = <<SetTimeoutCall(b, timeout.v),
                                            Call("commit", <<>>, <<>>)>> \o @]
                 ELSE r,
         in_force |-> IF r.calls # <<>> THEN during.statement_timeout ELSE <<>>,
         session |-> during]

SqlExecuteQueryToDataframeTimeout ==
    /\ backend \in {"postgres", "mysql"}
    /\ \E query \in TimedQueries, timeout \in Timeouts, outcome \in {"rows", "fault"} :
         LeaveTimed("execute_query_to_dataframe", query, timeout, outcome,
                    TimedDataframe(backend,
                                   IF backend = "postgres"
                                   THEN PostgresDBManager_execute_query_to_dataframe(query, outcome)
                                   ELSE MySQLDBManager_execute_query_to_dataframe(query, outcome),
                                   timeout, session))
    /\ UNCHANGED <<server, backend, connection, client, db>>

\* get_table_schema of both SQL managers: the SET of the longer timeout,
\* the list of tables ("rows": one table, "empty": none, "fault": the
\* query raises) and the columns of each
get_table_schema(b, outcome) ==
    LET set == SetTimeoutCall(b, SCHEMA_STATEMENT_TIMEOUT)
        \* information_schema.tables
        tables == Call("execute", <<>>, <<PyStr(<<"i","n","f","o","r","m","a","t","i","o","n","_","s","c","h","e","m","a",".","t","a","b","l","e","s">>)>>)
        \* information_schema.columns
        columns == Call("execute", <<>>, <<PyStr(<<"i","n","f","o","r","m","a","t","i","o","n","_","s","c","h","e","m","a",".","c","o","l","u","m","n","s">>)>>)
        fetchall == Call("fetchall", <<>>, <<>>)
        close == Call("close", <<>>, <<>>)
    IN  IF ~connection
        THEN Res(<<>>, RetFalse, <<"Retrieving table schema...", "Database not connected">>)
        ELSE IF outcome = "fault"
        THEN Res(<<set, tables>>, RetFalse,
                 <<"Retrieving table schema...", "Error retrieving table schema">>)
        ELSE Res(<<set, tables, fetchall>>
                   \o (IF outcome = "rows" THEN <<columns, fetchall>> ELSE <<>>)
                   \o <<close>>,
                 RetTrue, <<"Retrieving table schema...", "Retrieved schema">>)

SqlGetTableSchema ==
    /\ backend \in {"postgres", "mysql"}
    /\ \E outcome \in {"rows", "empty", "fault"} :
         /\ last' = Done("get_table_schema", PyNone, outcome, get_table_schema(backend, outcome))
         /\ session' = IF connection THEN SetTimeout(session, SCHEMA_STATEMENT_TIMEOUT)
                       ELSE session
    /\ UNCHANGED <<server, backend, connection, client, db>>

SessionInit == Init /\ backend \in {"postgres", "mysql"}

SessionNext ==
    \/ SqlConnect
    \/ SqlDisconnect
    \/ PostgresExecuteQueryTimeout
    \/ MySQLExecuteQueryTimeout
    \/ SqlExecuteQueryToDataframeTimeout
    \/ SqlGetTableSchema

SessionSpec == SessionInit /\ [][SessionNext]_vars

----------------------------------------------------------------------------
(* The helpers nested in execute_query, run on their own over texts that   *)
(* are written from their parts, so that what a helper hands back can be   *)
(* compared with what was written.  last holds the helper that ran last    *)
(* (method), the parts written so far (written), the text they make (cmd)  *)
(* and what the helper handed back (result).                               *)

\* the longest chain of calls written
MaxChain == 3

\* find   sort   limit
OperationNames == {<<"f","i","n","d">>, <<"s","o","r","t">>, <<"l","i","m","i","t">>}

\* parameters as callers write them: nested objects and arrays, dots,
\* commas and colons, and calls in parentheses
ArgumentTexts == {
    \* {a:{$gt:1}}
    <<"{","a",":","{","$","g","t",":","1","}","}">>,
    \* {b:-1}
    <<"{","b",":","-","1","}">>,
    <<"5">>,
    <<>>,
    \* {"k.v": [1, 2], "id": ObjectId("a.b")}
    <<"{","\"","k",".","v","\"",":"," ","[","1",","," ","2","]",","," ","\"","i","d","\"",":"," ","O","b","j","e","c","t","I","d","(","\"","a",".","b","\"",")","}">> }

\* name(params)
\* (   )
WrittenCall(op) == op[1] \o <<"(">> \o op[2] \o <<")">>

\* db.c.name(params).name(params)...
\* db.c   .
ShellText(ops) == <<"d","b",".","c">> \o Concat([i \in DOMAIN ops |-> <<".">> \o WrittenCall(ops[i])])

Helper(method, written, text, result) ==
    [method |-> method, written |-> written, cmd |-> PyStr(text), result |-> result]

HelperInit ==
    /\ session = NoSession
    /\ server = Serving
    /\ backend = "mongo"
    /\ connection = FALSE
    /\ client = FALSE
    /\ db = FALSE
    /\ last = Helper("write_shell", <<>>, ShellText(<<>>), NoParse)

\* one more call is written at the end of the command
WriteOperation ==
    /\ last.method = "write_shell"
    /\ Len(last.written) < MaxChain
    /\ \E name \in OperationNames, params \in ArgumentTexts :
         LET ops == Append(last.written, <<name, params>>)
         IN  last' = Helper("write_shell", ops, ShellText(ops), NoParse)
    /\ UNCHANGED <<server, backend, connection, client, db, session>>

\* parse_shell_command(cmd) on the command written
ParseShellCommand ==
    /\ last.method = "write_shell"
    /\ last' = [last EXCEPT !.method = "parse_shell_command",
                            !.result = parse_shell_command(last.cmd.v)]
    /\ UNCHANGED <<server, backend, connection, client, db, session>>

\* the most arguments written for distinct
MaxArguments == 3

\* the arguments of distinct as callers write them, each with the value it
\* denotes: the key, then the filter (and what may follow it)
KeyArguments == {
    \* "field"   field
    <<<<"\"","f","i","e","l","d","\"">>, <<"f","i","e","l","d">>>>,
    \* 'f'   f
    <<<<"'","f","'">>, <<"f">>>>,
    \* a.b   a.b
    <<<<"a",".","b">>, <<"a",".","b">>>> }

FilterArguments == {
    \* {"x": {"$in": [1,2,3]}}
    <<<<"{","\"","x","\"",":"," ","{","\"","$","i","n","\"",":"," ","[","1",",","2",",","3","]","}","}">>,
      \* x   $in   1   2   3
      One(<<"x">>, One(<<"$","i","n">>, PyList(<<PyInt(<<"1">>), PyInt(<<"2">>), PyInt(<<"3">>)>>)))>>,
    \* {}
    <<<<"{","}">>, EmptyDict>>,
    \* {"a": [1, {"b": 2}], "c": 3}
    <<<<"{","\"","a","\"",":"," ","[","1",","," ","{","\"","b","\"",":"," ","2","}","]",","," ","\"","c","\"",":"," ","3","}">>,
      \* a   1   b   2   c   3
      PyDict(<< <<<<"a">>, PyList(<<PyInt(<<"1">>), One(<<"b">>, PyInt(<<"2">>))>>)>>, <<<<"c">>, PyInt(<<"3">>)>> >>)>> }

\* the arguments, separated by ", "
ArgumentText(args) ==
    \* , 
    Concat([i \in DOMAIN args |-> (IF i > 1 THEN <<","," ">> ELSE <<>>) \o args[i][1]])

NoDistinct == [params |-> <<>>, op |-> Fell(<<>>)]

StartDistinct ==
    /\ last.method \in {"write_shell", "write_distinct"}
    /\ last.written = <<>>
    /\ \E key \in KeyArguments :
         last' = Helper("write_distinct", <<key>>, ArgumentText(<<key>>), NoDistinct)
    /\ UNCHANGED <<server, backend, connection, client, db, session>>

\* one more argument is written after the key
WriteArgument ==
    /\ last.method = "write_distinct"
    /\ Len(last.written) < MaxArguments
    /\ \E arg \in FilterArguments :
         LET args == Append(last.written, arg)
         IN  last' = Helper("write_distinct", args, ArgumentText(args), NoDistinct)
    /\ UNCHANGED <<server, backend, connection, client, db, session>>

\* the branch `elif primary_op == "distinct"` of db.c.distinct(cmd): the
\* arguments it splits cmd into, and the call it makes
ShellDistinct ==
    /\ last.method = "write_distinct"
    /\ last' = [last EXCEPT
                  !.method = "distinct",
                  !.result = [params |-> SplitParams(last.cmd.v),
                              op |-> ShellOperation(
                                        [parsed |-> TRUE, collection_name |-> <<"c">>,
                                         \* distinct
                                         primary_op |-> <<"d","i","s","t","i","n","c","t">>,
                                         primary_params |-> last.cmd.v,
                                         chained_ops |-> <<>>], "docs")]]
    /\ UNCHANGED <<server, backend, connection, client, db, session>>

\* the values of bson that JSON does not have: ObjectId (its hex digits),
\* datetime (its ISO text) and Binary (its base64 text)
PyObjectId(hex) == [t |-> "ObjectId", v |-> hex]
PyDatetime(iso) == [t |-> "datetime", v |-> iso]
PyBinary(base64) == [t |-> "Binary", v |-> base64]

\* json_util.dumps: the values of bson are written in their canonical
\* form, {"$oid": ...}, {"$date": ...}, {"$binary": ...}
RECURSIVE Canonical(_)
Canonical(x) ==
    \* $oid
    CASE x.t = "ObjectId" -> One(<<"$","o","i","d">>, PyStr(x.v))
      \* $date
      [] x.t = "datetime" -> One(<<"$","d","a","t","e">>, PyStr(x.v))
      \* $binary   base64
      [] x.t = "Binary"   -> One(<<"$","b","i","n","a","r","y">>, PyDict(<< <<<<"b","a","s","e","6","4">>, PyStr(x.v)>>,
                                                     \* subType   00
                                                     <<<<"s","u","b","T","y","p","e">>, PyStr(<<"0","0">>)>> >>))
      [] x.t = "list"     -> PyList([i \in DOMAIN x.v |-> Canonical(x.v[i])])
      [] x.t = "dict"     -> PyDict([i \in DOMAIN x.v |-> <<x.v[i][1], Canonical(x.v[i][2])>>])
      [] OTHER            -> x

json_util_dumps(x) == json_dumps(Canonical(x))

\* no command is being written
Unwritten ==
    \/ last.method = "write_shell" /\ last.written = <<>>
    \/ last.method \in {"json_util_dumps", "safe_eval_params", "json_loads"}

\* documents the driver hands back
DriverDocuments == {
    \* _id   5f
    One(<<"_","i","d">>, PyObjectId(<<"5","f">>)),
    \* _id   5f   at   2020-01-01T00:00:00Z
    PyDict(<< <<<<"_","i","d">>, PyObjectId(<<"5","f">>)>>, <<<<"a","t">>, PyDatetime(<<"2","0","2","0","-","0","1","-","0","1","T","0","0",":","0","0",":","0","0","Z">>)>>,
              \* raw   AQ==   n   1
              <<<<"r","a","w">>, PyBinary(<<"A","Q","=","=">>)>>, <<<<"n">>, PyInt(<<"1">>)>> >>),
    \* tags   5f   x
    One(<<"t","a","g","s">>, PyList(<<PyObjectId(<<"5","f">>), PyStr(<<"x">>)>>)),
    \* a   1
    One(<<"a">>, PyInt(<<"1">>)) }

\* `json.loads(json_util.dumps(result))`: a document of the driver is
\* written as text and read back
EncodeResult ==
    /\ Unwritten
    /\ \E doc \in DriverDocuments :
         last' = Helper("json_util_dumps", <<doc>>, json_util_dumps(doc),
                        Loaded(json_loads(json_util_dumps(doc)), Raised))
    /\ UNCHANGED <<server, backend, connection, client, db, session>>

\* arguments of find, each with the filter it stands for
ExtendedArguments == {
    \* {"_id": ObjectId("5f")}   _id   5f
    <<<<"{","\"","_","i","d","\"",":"," ","O","b","j","e","c","t","I","d","(","\"","5","f","\"",")","}">>, One(<<"_","i","d">>, PyObjectId(<<"5","f">>))>>,
    \* {"_id": ObjectId('5f')}   _id   5f
    <<<<"{","\"","_","i","d","\"",":"," ","O","b","j","e","c","t","I","d","(","'","5","f","'",")","}">>, One(<<"_","i","d">>, PyObjectId(<<"5","f">>))>>,
    \* {"_id": {"$oid": "5f"}}   _id   5f
    <<<<"{","\"","_","i","d","\"",":"," ","{","\"","$","o","i","d","\"",":"," ","\"","5","f","\"","}","}">>, One(<<"_","i","d">>, PyObjectId(<<"5","f">>))>>,
    \* {"at": {"$date": "2020-01-01T00:00:00Z"}}   at   2020-01-01T00:00:00Z
    <<<<"{","\"","a","t","\"",":"," ","{","\"","$","d","a","t","e","\"",":"," ","\"","2","0","2","0","-","0","1","-","0","1","T","0","0",":","0","0",":","0","0","Z","\"","}","}">>, One(<<"a","t">>, PyDatetime(<<"2","0","2","0","-","0","1","-","0","1","T","0","0",":","0","0",":","0","0","Z">>))>>,
    \* {"a": 1}   a   1
    <<<<"{","\"","a","\"",":"," ","1","}">>, One(<<"a">>, PyInt(<<"1">>))>> }

\* safe_eval_params(primary_params) of find, on such an argument
SafeEvalParams ==
    /\ Unwritten
    /\ \E a \in ExtendedArguments :
         last' = Helper("safe_eval_params", <<a[2]>>, a[1], FilterOf(a[1]))
    /\ UNCHANGED <<server, backend, connection, client, db, session>>

\* argument texts: JSON, bare keys, ObjectId, nothing, and unreadable ones
CoercionTexts == {
    \* {"a": 1}   {a: 1}   {a:{$gt:1}}   {"_id": ObjectId("5f")}   {_id: ObjectId("5f")}
    <<"{","\"","a","\"",":"," ","1","}">>, <<"{","a",":"," ","1","}">>, <<"{","a",":","{","$","g","t",":","1","}","}">>, <<"{","\"","_","i","d","\"",":"," ","O","b","j","e","c","t","I","d","(","\"","5","f","\"",")","}">>, <<"{","_","i","d",":"," ","O","b","j","e","c","t","I","d","(","\"","5","f","\"",")","}">>,
    \* {"a": "ObjectId('x')"}   (empty)        {a: }   [1, 2]   5
    <<"{","\"","a","\"",":"," ","\"","O","b","j","e","c","t","I","d","(","'","x","'",")","\"","}">>, <<>>, <<" "," ">>, <<"{","a",":"," ","}">>, <<"[","1",","," ","2","]">>, <<"5">> }

\* the calls of json.loads that safe_eval_params makes on a text: one in
\* each try block that is entered
json_loads_calls(params_str) ==
    IF strip(params_str) = <<>> THEN <<>>
    ELSE IF json_loads(params_str).ok THEN <<params_str>>
    ELSE IF json_loads(quote_bare_keys(params_str)).ok
    THEN <<params_str, quote_bare_keys(params_str)>>
    \* ObjectId
    ELSE IF contains(params_str, <<"O","b","j","e","c","t","I","d">>)
    THEN <<params_str, quote_bare_keys(params_str), rewrite_objectid(params_str)>>
    ELSE <<params_str, quote_bare_keys(params_str)>>

\* safe_eval_params(params_str), with the texts it hands to json.loads
CoerceArgument ==
    /\ Unwritten
    /\ \E text \in CoercionTexts :
         last' = Helper("json_loads", json_loads_calls(text), text, safe_eval_params(text))
    /\ UNCHANGED <<server, backend, connection, client, db, session>>

HelperNext ==
    \/ WriteOperation
    \/ ParseShellCommand
    \/ StartDistinct
    \/ WriteArgument
    \/ ShellDistinct
    \/ EncodeResult
    \/ SafeEvalParams
    \/ CoerceArgument

HelperSpec == HelperInit /\ [][HelperNext]_vars

----------------------------------------------------------------------------
(* Vocabulary of the properties.                                           *)

\* execute_query does not change the connection, so after it Connected
\* tells whether the manager was connected when it ran
Connected == IF backend = "mongo" THEN client /\ db ELSE connection

RanQuery == last.method = "execute_query" /\ Connected

RanAny == last.method \in {"execute_query", "execute_query_to_dataframe"} /\ Connected

\* the call was refused: an error came back and the driver was not used
Rejected == last.ret.kind = "error" /\ last.calls = <<>>

\* the ';'-separated statements of a SQL text
Statements(text) ==
    LET cut == {0, Len(text) + 1} \cup {i \in DOMAIN text : text[i] = ";"}
        pieces == {p \in cut \X cut :
                      p[1] < p[2] /\ ~(\E c \in cut : p[1] < c /\ c < p[2])}
    IN  {strip(SubSeq(text, p[1] + 1, p[2] - 1)) : p \in pieces} \ {<<>>}

FirstWord(s) == SubSeq(s, 1, WordEnd(s, 1))

\* SELECT   EXPLAIN   SHOW   DESCRIBE   WITH
ReadVerbs == {<<"S","E","L","E","C","T">>, <<"E","X","P","L","A","I","N">>, <<"S","H","O","W">>, <<"D","E","S","C","R","I","B","E">>, <<"W","I","T","H">>}

\* a statement (in upper case) that only reads: it begins with a reading
\* verb, is no SELECT ... INTO, and an EXPLAIN or WITH wraps no write
StatementReads(s) ==
    /\ FirstWord(s) \in ReadVerbs
    \* SELECT   INTO
    /\ ~(FirstWord(s) = <<"S","E","L","E","C","T">> /\ re_search_word(<<"I","N","T","O">>, s))
    \* EXPLAIN   WITH
    /\ ~(/\ FirstWord(s) \in {<<"E","X","P","L","A","I","N">>, <<"W","I","T","H">>}
         /\ \E kw \in WITH_UNSAFE_KEYWORDS : re_search_word(kw, s))

SqlCanMutate(text) == \E s \in Statements(upper(text)) : ~StatementReads(s)

\* a command document that db.command runs with an effect on the server:
\* {"profile": level} with level >= 0 sets the profiler level
MongoCanMutate(cmd) ==
    /\ cmd.t = "dict" /\ cmd.v # <<>>
    \* profile
    /\ cmd.v[1][1] = <<"p","r","o","f","i","l","e">>
    /\ cmd.v[1][2].t = "int" /\ Head(cmd.v[1][2].v) # "-"

\* the policy of the backend lets the command through
MongoDenyListPasses(cmd) ==
    CASE cmd.t = "str"  -> ~mongo_contains_unsafe_operations(lower(strip(cmd.v)))
      [] cmd.t = "dict" -> ~mongo_contains_unsafe_operations(json_dumps(cmd))
      [] OTHER          -> FALSE

PolicyPassed(cmd) ==
    CASE backend = "postgres" -> ~PostgresPolicyBlocks(cmd.v)
      [] backend = "mysql"    -> ~MySQLPolicyBlocks(cmd.v)
      [] OTHER                -> MongoDenyListPasses(cmd)

----------------------------------------------------------------------------
(* Properties.                                                             *)

\* C1: on every backend, execute_query and execute_query_to_dataframe issue
\* driver calls only for a command that has passed the policy check.
\* Violated: the SQL execute_query_to_dataframe hands the query to
\* pd.read_sql without any check.
C1_DriverCallOnlyAfterPolicy ==
    RanAny /\ last.calls # <<>> => PolicyPassed(last.cmd)

C1_DataframeBypassesPolicy ==
    /\ backend = "postgres"
    /\ last.method = "execute_query_to_dataframe"
    \* DROP TABLE x
    /\ last.cmd = PyStr(<<"D","R","O","P"," ","T","A","B","L","E"," ","x">>)
    /\ PostgresPolicyBlocks(last.cmd.v)
    \* DROP TABLE x
    /\ last.calls = <<Call("read_sql", <<>>, <<PyStr(<<"D","R","O","P"," ","T","A","B","L","E"," ","x">>)>>)>>
    /\ last.ret = RetDataFrame

\* C2: every command execute_query forwards to the driver is incapable of
\* mutating data, schema or server configuration.
\* Violated: Postgres forwards SELECT ... INTO (it creates a table) and
\* MongoDB forwards {"profile": 2} whole to db.command.
C2_ForwardedCommandsCannotMutate ==
    RanQuery /\ last.calls # <<>> =>
        IF backend = "mongo" THEN ~MongoCanMutate(last.cmd)
        ELSE ~SqlCanMutate(last.cmd.v)

C2_SelectIntoForwarded ==
    /\ backend = "postgres"
    /\ last.method = "execute_query"
    \* SELECT * INTO t2 FROM t
    /\ last.cmd = PyStr(<<"S","E","L","E","C","T"," ","*"," ","I","N","T","O"," ","t","2"," ","F","R","O","M"," ","t">>)
    /\ last.calls = <<Call("execute", <<>>, <<last.cmd>>), Call("fetchall", <<>>, <<>>)>>

SqlMutatingKeywords == {
    \* INSERT   UPDATE   DELETE   DROP   CREATE   ALTER   TRUNCATE
    <<"I","N","S","E","R","T">>, <<"U","P","D","A","T","E">>, <<"D","E","L","E","T","E">>, <<"D","R","O","P">>, <<"C","R","E","A","T","E">>, <<"A","L","T","E","R">>, <<"T","R","U","N","C","A","T","E">>,
    \* GRANT   EXECUTE   LOAD
    <<"G","R","A","N","T">>, <<"E","X","E","C","U","T","E">>, <<"L","O","A","D">> }

MongoMutatingMethods == {
    \* deleteOne   deleteMany   insertOne   insertMany   updateOne
    <<"d","e","l","e","t","e","O","n","e">>, <<"d","e","l","e","t","e","M","a","n","y">>, <<"i","n","s","e","r","t","O","n","e">>, <<"i","n","s","e","r","t","M","a","n","y">>, <<"u","p","d","a","t","e","O","n","e">>,
    \* updateMany   replaceOne   remove   drop
    <<"u","p","d","a","t","e","M","a","n","y">>, <<"r","e","p","l","a","c","e","O","n","e">>, <<"r","e","m","o","v","e">>, <<"d","r","o","p">> }

\* the command holds a mutating keyword as a word of its own (SQL) or a
\* call .method( of a mutating method (Mongo shell), in any letter case
ContainsMutating(cmd) ==
    IF backend = "mongo"
    THEN /\ cmd.t = "str"
         /\ \E m \in MongoMutatingMethods :
                contains(lower(cmd.v), <<".">> \o lower(m) \o <<"(">>)
    ELSE \E kw \in SqlMutatingKeywords : re_search_word(kw, upper(cmd.v))

\* C3: a command that contains an unqualified mutating keyword or method,
\* in any letter case and with any surrounding whitespace, is rejected by
\* execute_query and no driver call is issued for it.
\* Violated: db.users.find({}).deleteOne({}) passes the deny-list
\* (\bdelete\b does not match deleteone), the chained deleteOne is skipped
\* (C9) and find is issued; MySQL forwards SELECT 1; EXECUTE stmt.
C3_MutatingCommandsRejected ==
    RanQuery /\ ContainsMutating(last.cmd) => Rejected

C3_ChainedDeleteOneRunsFind ==
    /\ backend = "mongo"
    /\ last.method = "execute_query"
    \* db.users.find({}).deleteOne({})
    /\ last.cmd = PyStr(<<"d","b",".","u","s","e","r","s",".","f","i","n","d","(","{","}",")",".","d","e","l","e","t","e","O","n","e","(","{","}",")">>)
    \* users
    /\ last.calls = <<Call("find", <<"u","s","e","r","s">>, <<EmptyDict>>)>>
    /\ last.ret = RetList("docs")

\* the text the deny-list of the backend looks at, and its words
PolicyText(cmd) ==
    IF backend = "mongo"
    THEN lower(IF cmd.t = "str" THEN strip(cmd.v) ELSE json_dumps(cmd))
    ELSE upper(strip(cmd.v))

DenyWords ==
    CASE backend = "postgres" -> PG_UNSAFE_KEYWORDS
      [] backend = "mysql"    -> MYSQL_UNSAFE_KEYWORDS
      [] OTHER                -> {lower(w) : w \in UNSAFE_WORD_PATTERNS}

\* a deny-listed word stands in the text as a token of its own
BareDenyWord(text) == \E w \in DenyWords : re_search_word(w, text)

\* a deny-listed word occurs in the text, but only inside longer tokens
DenyWordOnlyInsideTokens(text) ==
    /\ \E w \in DenyWords : contains(text, w)
    /\ ~BareDenyWord(text)

\* the other entries of the deny-lists: function calls, pipeline stages
OtherDenyEntry(text) ==
    CASE backend = "postgres" -> \E f \in PG_UNSAFE_FUNCTIONS : re_search_call(f, text)
      [] backend = "mysql"    -> \E f \in MYSQL_UNSAFE_FUNCTIONS : re_search_call(f, text)
      [] OTHER                -> \E st \in UNSAFE_STAGE_PATTERNS : re_search_stage(st, text)

AllowedShape(cmd) ==
    IF backend = "mongo" THEN cmd.t \in {"str", "dict"}
    ELSE LET sql == upper(strip(cmd.v))
         \* SELECT
         IN  startswith(sql, <<"S","E","L","E","C","T">>) \/ FirstSafePrefix(sql) # 0

BlockedMessages == {
    "Operation blocked -  Non-read operation detected in query",
    "Operation blocked - Non-read operation detected in query",
    "Operation blocked - only read operations are permitted" }

BlockedByPolicy == Rejected /\ last.ret.msg \in BlockedMessages

\* C4: for every allowed command shape, a deny-listed word that occurs only
\* as part of a longer token (update_count, createdAt) does not cause
\* rejection, and a deny-listed word as a bare token does.
\* Violated: for a WITH query is_read_only_query tests `keyword in sql`, so
\* WITH x AS (SELECT update_count FROM t) SELECT * FROM x is rejected.
C4_DenyListWordBoundary ==
    RanQuery /\ AllowedShape(last.cmd) =>
        LET text == PolicyText(last.cmd)
        IN  /\ DenyWordOnlyInsideTokens(text) /\ ~OtherDenyEntry(text) => ~BlockedByPolicy
            /\ BareDenyWord(text) => Rejected

C4_WithIdentifierRejected ==
    /\ backend = "postgres"
    /\ last.method = "execute_query"
    \* WITH x AS (SELECT update_count FROM t) SELECT * FROM x
    /\ last.cmd = PyStr(<<"W","I","T","H"," ","x"," ","A","S"," ","(","S","E","L","E","C","T"," ","u","p","d","a","t","e","_","c","o","u","n","t"," ","F","R","O","M"," ","t",")"," ","S","E","L","E","C","T"," ","*"," ","F","R","O","M"," ","x">>)
    /\ ~BareDenyWord(PolicyText(last.cmd))
    /\ BlockedByPolicy

\* an aggregate command: a dict with the key aggregate, or shell text
\* that calls .aggregate(
IsAggregate(cmd) ==
    \* aggregate
    CASE cmd.t = "dict" -> HasKey(cmd, <<"a","g","g","r","e","g","a","t","e">>)
      \* .aggregate(
      [] cmd.t = "str"  -> contains(lower(cmd.v), <<".","a","g","g","r","e","g","a","t","e","(">>)
      [] OTHER          -> FALSE

\* its pipeline has a $merge or $out stage at some position; in shell text
\* the "$" of the stage name may be written as the JSON escape \u0024
HasWriteStage(cmd) ==
    CASE cmd.t = "dict" ->
            \* pipeline
            LET pipeline == GetOr(cmd, <<"p","i","p","e","l","i","n","e">>, PyList(<<>>))
            IN  /\ pipeline.t = "list"
                /\ \E i \in DOMAIN pipeline.v :
                       /\ pipeline.v[i].t = "dict"
                       \* $merge   $out
                       /\ (HasKey(pipeline.v[i], <<"$","m","e","r","g","e">>) \/ HasKey(pipeline.v[i], <<"$","o","u","t">>))
      [] cmd.t = "str" ->
            \* {"$merge"   {"$out"   {"\\u0024merge"   {"\\u0024out"
            \E name \in {<<"{","\"","$","m","e","r","g","e","\"">>, <<"{","\"","$","o","u","t","\"">>, <<"{","\"","\\","u","0","0","2","4","m","e","r","g","e","\"">>, <<"{","\"","\\","u","0","0","2","4","o","u","t","\"">>} :
                contains(lower(cmd.v), name)
      [] OTHER -> FALSE

\* C5: a Mongo aggregate command (shell text or dict) whose pipeline has a
\* $merge or $out stage at any position is rejected as a whole: nothing of
\* it reaches the driver.
C5_WriteStageRejected ==
    /\ backend = "mongo" /\ RanAny
    /\ IsAggregate(last.cmd) /\ HasWriteStage(last.cmd)
    => Rejected

\* a pipeline whose deny-listed stage only the stage loop can see is
\* refused after benign first stages
C5_EscapedMergeStageRefused ==
    /\ backend = "mongo"
    /\ last.method = "execute_query"
    \* db.users.aggregate([{"$match": {"a": 1}}, {"\\u0024merge": "x"}])
    /\ last.cmd = PyStr(<<"d","b",".","u","s","e","r","s",".","a","g","g","r","e","g","a","t","e","(","[","{","\"","$","m","a","t","c","h","\"",":"," ","{","\"","a","\"",":"," ","1","}","}",","," ","{","\"","\\","u","0","0","2","4","m","e","r","g","e","\"",":"," ","\"","x","\"","}","]",")">>)
    /\ last.outcome = "docs"
    /\ last.ret = RetError("Unsafe aggregation stage detected")
    /\ last.calls = <<>>

\* C6: a SQL command that starts with WITH is allowed only if its whole
\* text contains none of INSERT, UPDATE, DELETE, DROP, CREATE, ALTER,
\* TRUNCATE; a CTE that wraps a write is rejected on Postgres and MySQL.
C6_WithScansWholeText ==
    /\ backend \in {"postgres", "mysql"} /\ RanQuery
    \* WITH 
    /\ startswith(upper(strip(last.cmd.v)), <<"W","I","T","H"," ">>)
    /\ \E keyword \in WITH_UNSAFE_KEYWORDS : contains(upper(strip(last.cmd.v)), keyword)
    => Rejected /\ last.ret.msg \in BlockedMessages

C6_CteWrappingDeleteRejected ==
    /\ backend = "mysql"
    /\ last.method = "execute_query"
    \* WITH x AS (DELETE FROM t RETURNING a) SELECT * FROM x
    /\ last.cmd = PyStr(<<"W","I","T","H"," ","x"," ","A","S"," ","(","D","E","L","E","T","E"," ","F","R","O","M"," ","t"," ","R","E","T","U","R","N","I","N","G"," ","a",")"," ","S","E","L","E","C","T"," ","*"," ","F","R","O","M"," ","x">>)
    /\ last.outcome = "rows"
    /\ Rejected

\* C7: SQL text made of several ';'-separated statements is forwarded to
\* the driver only if every statement in it is read-only.
\* Violated: only the start of the whole text is tested, and SET is on no
\* deny-list, so SELECT 1; SET statement_timeout = 0 is forwarded.
C7_EveryStatementReadOnly ==
    /\ backend \in {"postgres", "mysql"} /\ RanQuery
    /\ \E i \in DOMAIN last.cmd.v : last.cmd.v[i] = ";"
    /\ last.calls # <<>>
    => \A s \in Statements(upper(last.cmd.v)) : StatementReads(s)

C7_SetAfterSelectForwarded ==
    /\ backend = "postgres"
    /\ last.method = "execute_query"
    \* SELECT 1; SET statement_timeout = 0
    /\ last.cmd = PyStr(<<"S","E","L","E","C","T"," ","1",";"," ","S","E","T"," ","s","t","a","t","e","m","e","n","t","_","t","i","m","e","o","u","t"," ","="," ","0">>)
    \* SELECT 1   SET STATEMENT_TIMEOUT = 0
    /\ Statements(upper(last.cmd.v)) = {<<"S","E","L","E","C","T"," ","1">>, <<"S","E","T"," ","S","T","A","T","E","M","E","N","T","_","T","I","M","E","O","U","T"," ","="," ","0">>}
    /\ last.calls = <<Call("execute", <<>>, <<last.cmd>>), Call("fetchall", <<>>, <<>>)>>
    /\ last.ret = RetList("rows")

PrimaryOps == {
    \* findOne   find   aggregate   count   countDocuments
    <<"f","i","n","d","O","n","e">>, <<"f","i","n","d">>, <<"a","g","g","r","e","g","a","t","e">>, <<"c","o","u","n","t">>, <<"c","o","u","n","t","D","o","c","u","m","e","n","t","s">>,
    \* estimatedDocumentCount   distinct   stats   explain
    <<"e","s","t","i","m","a","t","e","d","D","o","c","u","m","e","n","t","C","o","u","n","t">>, <<"d","i","s","t","i","n","c","t">>, <<"s","t","a","t","s">>, <<"e","x","p","l","a","i","n">> }

\* sort   limit   skip   project   count
ChainedOps == {<<"s","o","r","t">>, <<"l","i","m","i","t">>, <<"s","k","i","p">>, <<"p","r","o","j","e","c","t">>, <<"c","o","u","n","t">>}

\* the three shapes of a Mongo command that may reach the driver
SafeLiteral(cmd) == cmd.t = "str" /\ lower(strip(cmd.v)) \in SAFE_STRING_COMMANDS

ShellShape(cmd) ==
    /\ cmd.t = "str"
    /\ LET p == parse_shell_command(strip(cmd.v))
       IN  p.parsed /\ p.collection_name # <<>> /\ p.primary_op \in PrimaryOps

AllowedDict(cmd) ==
    /\ cmd.t = "dict"
    /\ cmd.v # <<>>
    /\ cmd.v[1][1] \in SAFE_DICT_OPERATIONS

\* C8: MongoDB execute_query issues a driver call only for a safe literal
\* statement, for db.<collection>.<op>(...) with a supported primary op, or
\* for a dict whose operation key is on the allow-list; every other command
\* returns an error and issues no driver call.
\* Violated: db.getCollectionNames().x() lists the collections although x
\* is no supported operation; {"collStats": "users"} runs although
\* collStats is not in SAFE_DICT_OPERATIONS.
C8_MongoDefaultDeny ==
    backend = "mongo" /\ RanQuery =>
        IF SafeLiteral(last.cmd) \/ ShellShape(last.cmd) \/ AllowedDict(last.cmd)
        THEN TRUE
        ELSE Rejected

C8_UnknownOperationListsCollections ==
    /\ backend = "mongo"
    /\ last.method = "execute_query"
    \* db.getCollectionNames().x()
    /\ last.cmd = PyStr(<<"d","b",".","g","e","t","C","o","l","l","e","c","t","i","o","n","N","a","m","e","s","(",")",".","x","(",")">>)
    /\ parse_shell_command(last.cmd.v).primary_op = <<"x">>
    /\ last.calls = <<Call("list_collection_names", <<>>, <<>>)>>
    /\ last.ret = RetList("docs")

\* the names of the operations of a shell command, as the parser reads
\* them: the primary one and the chained ones
ParsedShell(cmd) == parse_shell_command(strip(cmd.v))

IsShellCommand(cmd) ==
    /\ cmd.t = "str"
    /\ ParsedShell(cmd).parsed
    /\ ParsedShell(cmd).primary_op # <<>>

HasUnknownOperation(cmd) ==
    LET p == ParsedShell(cmd)
    IN  \/ p.primary_op \notin PrimaryOps
        \/ \E i \in DOMAIN p.chained_ops : p.chained_ops[i][1] \notin ChainedOps

\* the call handed documents or a value back
ReturnedData == last.ret.kind \in {"rows", "empty", "scalar"}

\* C9: Mongo shell text whose primary operation or any chained operation
\* lies outside the supported set is rejected as unsupported and returns
\* no documents; an unknown operation is never skipped.
\* Violated: the loop over the operations chained after find ignores the
\* names it does not know, so db.users.find({}).foo() returns the documents
\* of find({}).
C9_UnknownOperationRejected ==
    /\ backend = "mongo" /\ RanQuery
    /\ IsShellCommand(last.cmd) /\ HasUnknownOperation(last.cmd)
    => last.ret.kind = "error" /\ ~ReturnedData

C9_UnknownChainedOperationSkipped ==
    /\ backend = "mongo"
    /\ last.method = "execute_query"
    \* db.users.find({}).foo()
    /\ last.cmd = PyStr(<<"d","b",".","u","s","e","r","s",".","f","i","n","d","(","{","}",")",".","f","o","o","(",")">>)
    \* foo   (empty)
    /\ ParsedShell(last.cmd).chained_ops = << <<<<"f","o","o">>, <<>>>> >>
    \* users
    /\ last.calls = <<Call("find", <<"u","s","e","r","s">>, <<EmptyDict>>)>>
    /\ last.ret = RetList("docs")

\* the three coercion attempts of safe_eval_params all fail on the text
AllAttemptsFail(params_str) ==
    /\ strip(params_str) # <<>>
    /\ ~json_loads(params_str).ok
    /\ ~json_loads(quote_bare_keys(params_str)).ok
    /\ ~json_loads(rewrite_objectid(params_str)).ok

\* the primary operations whose argument text goes through safe_eval_params
\* findOne   find   aggregate   count   countDocuments   explain
CoercingOps == {<<"f","i","n","d","O","n","e">>, <<"f","i","n","d">>, <<"a","g","g","r","e","g","a","t","e">>, <<"c","o","u","n","t">>, <<"c","o","u","n","t","D","o","c","u","m","e","n","t","s">>, <<"e","x","p","l","a","i","n">>}

\* C10: when none of the three coercion attempts succeeds on a non-empty
\* argument text, safe_eval_params raises, the command returns an error and
\* no driver call is issued with a substituted or missing argument.
\* Violated: when the text holds no "ObjectId", safe_eval_params ends
\* without a return statement, and find(None) is issued.
C10_FailedCoercionRaises ==
    /\ backend = "mongo" /\ RanQuery
    /\ IsShellCommand(last.cmd)
    /\ ParsedShell(last.cmd).primary_op \in CoercingOps
    /\ AllAttemptsFail(ParsedShell(last.cmd).primary_params)
    => /\ safe_eval_params(ParsedShell(last.cmd).primary_params).raised
       /\ Rejected

C10_FindIssuedWithNone ==
    /\ backend = "mongo"
    /\ last.method = "execute_query"
    \* db.users.find({a:{$gt:1}})
    /\ last.cmd = PyStr(<<"d","b",".","u","s","e","r","s",".","f","i","n","d","(","{","a",":","{","$","g","t",":","1","}","}",")">>)
    /\ AllAttemptsFail(ParsedShell(last.cmd).primary_params)
    /\ safe_eval_params(ParsedShell(last.cmd).primary_params) = Returned(PyNone)
    \* users
    /\ last.calls = <<Call("find", <<"u","s","e","r","s">>, <<PyNone>>)>>
    /\ last.ret = RetList("docs")


----------------------------------------------------------------------------
\* C11: parse_shell_command hands back the calls of a chained shell command
\* in the order written, one (name, parameter text) pair per call: the first
\* as the primary operation with its parameter text intact, the others as
\* the chained operations; dots, commas, colons and balanced brackets inside
\* the parameters start no new operation.
C11_OperationsInOrderWritten ==
    (last.method = "parse_shell_command" /\ last.written # <<>>) =>
        /\ last.result.parsed
        /\ last.result.collection_name = <<"c">>
        /\ <<last.result.primary_op, last.result.primary_params>> = last.written[1]
        /\ last.result.chained_ops = Tail(last.written)

\* the command db.c.find({a:{$gt:1}}).sort({b:-1}).limit(5) was parsed
\* into find, sort, limit
C11_FindSortLimitParsed ==
    /\ last.method = "parse_shell_command"
    \* db.c.find({a:{$gt:1}}).sort({b:-1}).limit(5)
    /\ last.cmd.v = <<"d","b",".","c",".","f","i","n","d","(","{","a",":","{","$","g","t",":","1","}","}",")",".","s","o","r","t","(","{","b",":","-","1","}",")",".","l","i","m","i","t","(","5",")">>
    \* find
    /\ last.result.primary_op = <<"f","i","n","d">>
    \* {a:{$gt:1}}
    /\ last.result.primary_params = <<"{","a",":","{","$","g","t",":","1","}","}">>
    \* sort   {b:-1}   limit   5
    /\ last.result.chained_ops = << <<<<"s","o","r","t">>, <<"{","b",":","-","1","}">>>>, <<<<"l","i","m","i","t">>, <<"5">>>> >>

----------------------------------------------------------------------------
\* C12: the distinct branch splits its parameter text at the commas outside
\* of { } and [ ] only: it finds the arguments as written, uses the first,
\* without the quotes around it, as the key and the value the second denotes
\* as the filter of the one distinct call it makes.
C12_DistinctArgumentsSplit ==
    last.method = "distinct" =>
        /\ last.result.params = [i \in DOMAIN last.written |-> last.written[i][1]]
        /\ last.result.op.calls =
               << Call("distinct", <<"c">>,
                       << PyStr(last.written[1][2]),
                          IF Len(last.written) >= 2 THEN last.written[2][2] ELSE EmptyDict >>) >>

\* "field", {"x": {"$in": [1,2,3]}} was split into exactly two arguments
C12_NestedArrayKeptWhole ==
    /\ last.method = "distinct"
    \* "field", {"x": {"$in": [1,2,3]}}
    /\ last.cmd.v = <<"\"","f","i","e","l","d","\"",","," ","{","\"","x","\"",":"," ","{","\"","$","i","n","\"",":"," ","[","1",",","2",",","3","]","}","}">>
    /\ Len(last.result.params) = 2
    \* field
    /\ last.result.op.calls[1].args[1] = PyStr(<<"f","i","e","l","d">>)

----------------------------------------------------------------------------
\* a find (MongoDB, as shell text or as a command document) or a SELECT
IsFind(cmd) ==
    IF backend = "mongo"
    \* find
    THEN \/ IsShellCommand(cmd) /\ ParsedShell(cmd).primary_op = <<"f","i","n","d">>
         \* find
         \/ cmd.t = "dict" /\ HasKey(cmd, <<"f","i","n","d">>)
    \* SELECT
    ELSE FirstWord(upper(strip(cmd.v))) = <<"S","E","L","E","C","T">>

\* sort   limit   skip
CursorOps == {<<"s","o","r","t">>, <<"l","i","m","i","t">>, <<"s","k","i","p">>}

\* the chained operations of a shell find that act on its cursor
CursorCalls(cmd) ==
    LET ops == ParsedShell(cmd).chained_ops
    IN  {i \in DOMAIN ops : ops[i][1] \in CursorOps}

\* the rows were asked for: the statement was executed and fetched, the
\* find was issued with every cursor operation chained to it applied, and
\* no count was asked for instead of the documents
RowsAskedFor ==
    IF backend # "mongo" THEN \E i \in DOMAIN last.calls : last.calls[i].fn = "fetchall"
    ELSE /\ last.calls # <<>>
         /\ last.calls[1].fn = "find"
         /\ last.cmd.t = "str" =>
               /\ Len(last.calls) = 1 + Cardinality(CursorCalls(last.cmd))
               /\ \A i \in DOMAIN ParsedShell(last.cmd).chained_ops :
                      \* count
                      ParsedShell(last.cmd).chained_ops[i][1] # <<"c","o","u","n","t">>

\* C13: an allowed find (MongoDB, text or dict) or SELECT (Postgres, MySQL)
\* whose rows were asked for and that matched none returns an empty
\* sequence, not an error value and not None.
C13_NoRowsIsEmptySequence ==
    (/\ RanQuery /\ last.outcome = "empty"
     /\ IsFind(last.cmd) /\ PolicyPassed(last.cmd)
     /\ RowsAskedFor) => last.ret.kind = "empty"

\* a find followed by project matched nothing and handed back an error
C13_ProjectedFindFoundNothing ==
    /\ backend = "mongo" /\ RanQuery
    \* db.users.find({}).project({"a": 1})
    /\ last.cmd = PyStr(<<"d","b",".","u","s","e","r","s",".","f","i","n","d","(","{","}",")",".","p","r","o","j","e","c","t","(","{","\"","a","\"",":"," ","1","}",")">>)
    /\ IsFind(last.cmd) /\ PolicyPassed(last.cmd)
    /\ last.outcome = "empty"
    \* users
    /\ last.calls = <<Call("find", <<"u","s","e","r","s">>, <<EmptyDict>>)>>
    /\ last.ret = RetError("Error executing command")

\* a find with a sorted and limited cursor matched nothing and handed back []
C13_SortedFindFoundNothing ==
    /\ backend = "mongo" /\ RanQuery
    \* db.users.find({}).sort({"a": 1}).limit(5)
    /\ last.cmd = PyStr(<<"d","b",".","u","s","e","r","s",".","f","i","n","d","(","{","}",")",".","s","o","r","t","(","{","\"","a","\"",":"," ","1","}",")",".","l","i","m","i","t","(","5",")">>)
    /\ last.outcome = "empty"
    /\ Len(last.calls) = 3
    /\ last.ret.kind = "empty"

----------------------------------------------------------------------------
\* what execute_query of backend b hands back for command c when the
\* driver does o, on a manager that is connected or not
ReturnValue(b, c, o, connected) ==
    CASE ~connected     -> RetNone
      [] b = "postgres" -> PostgresResults[<<c, o>>].ret
      [] b = "mysql"    -> MySQLResults[<<c, o>>].ret
      [] OTHER          -> MongoResults[<<c, o>>].ret

PolicyBlocks(b, c) ==
    CASE b = "postgres" -> PostgresPolicyBlocks(c.v)
      [] b = "mysql"    -> MySQLPolicyBlocks(c.v)
      [] OTHER          -> ~MongoDenyListPasses(c)

CommandsOf(b) == IF b = "mongo" THEN MongoCommands ELSE SqlCommands

\* the driver outcome that stands for rows or documents found
Found(b) == IF b = "mongo" THEN "docs" ELSE "rows"

IsFindOne(c) ==
    \* findOne
    \/ IsShellCommand(c) /\ ParsedShell(c).primary_op = <<"f","i","n","d","O","n","e">>
    \* findOne
    \/ c.t = "dict" /\ HasKey(c, <<"f","i","n","d","O","n","e">>)

\* a supported read of rows or documents: when there is data, it hands
\* back rows, or the one document of findOne
ReadsDocuments(b, c) ==
    \/ ReturnValue(b, c, Found(b), TRUE).kind = "rows"
    \/ b = "mongo" /\ IsFindOne(c) /\ ReturnValue(b, c, "docs", TRUE).kind = "scalar"

\* which of the four outcomes a call is: "error" (no connection, or the
\* driver raised), "denied" (the policy check failed), "no_data" and "data"
\* (a supported read ran and found nothing, or something); "other" else
OutcomeClass(b, c, o, connected) ==
    CASE ~connected                -> "error"
      [] PolicyBlocks(b, c)        -> "denied"
      [] ~ReadsDocuments(b, c)     -> "other"
      [] o = "fault"               -> "error"
      [] o = "empty"               -> "no_data"
      [] o = Found(b)              -> "data"
      [] OTHER                     -> "other"

\* every outcome class with every value handed back for it
ReturnClasses ==
    [b \in Backends |->
        {<<OutcomeClass(b, c, o, connected), ReturnValue(b, c, o, connected)>> :
            c \in CommandsOf(b), o \in {Found(b), "empty", "fault"}, connected \in BOOLEAN}]
    @@ <<>>

ThisClass == OutcomeClass(backend, last.cmd, last.outcome, Connected)

\* C14: the value handed back by execute_query, and the answer run_query
\* makes of it, tells the four outcomes apart: no call of another outcome
\* (no data, error, denied, data) hands back the same value.
\* Violated: MongoDB findOne that matches no document returns None, the
\* value execute_query returns when there is no connection.
C14_OutcomesToldApart ==
    (last.method = "execute_query" /\ last.outcome \in {Found(backend), "empty", "fault"}
     /\ ThisClass # "other") =>
        \A p \in ReturnClasses[backend] :
            (p[1] # "other" /\ p[1] # ThisClass) =>
                /\ p[2] # last.ret
                /\ run_query(p[2]) # run_query(last.ret)

\* findOne found no document and handed back None, as a call without
\* connection does
C14_FindOneNothingLooksLikeNoConnection ==
    /\ backend = "mongo" /\ RanQuery
    \* db.users.findOne({"a": 1})
    /\ last.cmd = PyStr(<<"d","b",".","u","s","e","r","s",".","f","i","n","d","O","n","e","(","{","\"","a","\"",":"," ","1","}",")">>)
    /\ last.outcome = "empty"
    /\ ThisClass = "no_data"
    /\ last.ret = RetNone
    /\ <<"error", RetNone>> \in ReturnClasses["mongo"]

----------------------------------------------------------------------------
NoConnectionLogs ==
    {<<"Query execution failed: No active database connection">>,
     <<"No active MongoDB connection.">>}

\* C15: on a manager without active connection (SQL: connection is None;
\* MongoDB: client or db is None) execute_query hands back the
\* no-connection failure, logs it, and issues no driver call, whatever the
\* command.
C15_NoConnectionNoDriverCall ==
    (last.method = "execute_query" /\ ~Connected) =>
        /\ last.calls = <<>>
        /\ last.ret = RetNone
        /\ last.log \in NoConnectionLogs

\* a find submitted to a MongoDB manager whose client is set and whose
\* database is not
C15_FindWithoutDatabase ==
    /\ backend = "mongo" /\ client /\ ~db
    /\ last.method = "execute_query"
    \* db.users.find({})
    /\ last.cmd = PyStr(<<"d","b",".","u","s","e","r","s",".","f","i","n","d","(","{","}",")">>)
    /\ last.outcome = "docs"
    /\ last.calls = <<>>
    /\ last.ret = RetNone

----------------------------------------------------------------------------
\* C16: a query that execute_query sends without timeout argument runs
\* under the statement timeout the connection was opened with, whatever
\* timeouts earlier calls on the connection have passed and also after
\* get_table_schema has raised the timeout to 600000.
\* Violated: the SET of an earlier call stays in force.
C16_DefaultTimeoutInForce ==
    (last.method = "execute_query" /\ last.calls # <<>> /\ last.timeout = PyNone) =>
        last.in_force = session.default

\* PostgreSQL: a SELECT sent without timeout ran under the 1000 ms of an
\* earlier call
C16_EarlierTimeoutStillInForce ==
    /\ backend = "postgres" /\ connection
    /\ last.method = "execute_query"
    \* SELECT * FROM t
    /\ last.cmd = PyStr(<<"S","E","L","E","C","T"," ","*"," ","F","R","O","M"," ","t">>)
    /\ last.outcome = "rows"
    /\ last.timeout = PyNone
    /\ session.default = DEFAULT_STATEMENT_TIMEOUT
    \* 1000
    /\ last.in_force = <<"1","0","0","0">>

----------------------------------------------------------------------------
\* the driver raised during the call
DriverRaised == last.outcome \in {"fault", "broken"} /\ last.calls # <<>>

\* C17: when the driver raises during a call that passed the policy check,
\* the connection being lost included, execute_query returns an error
\* value and no exception leaves it, on all three backends.
\* Violated: on PostgreSQL and MySQL the except block calls
\* connection.rollback(), which raises on a lost connection.
C17_DriverFaultsReturnedAsErrors ==
    (RanQuery /\ PolicyPassed(last.cmd) /\ DriverRaised) => last.ret.kind = "error"

\* PostgreSQL: the connection is lost during a SELECT, and the exception
\* of rollback() leaves execute_query
C17_RollbackFaultPropagates ==
    /\ backend = "postgres" /\ RanQuery
    \* SELECT * FROM t
    /\ last.cmd = PyStr(<<"S","E","L","E","C","T"," ","*"," ","F","R","O","M"," ","t">>)
    /\ last.outcome = "broken"
    /\ last.calls = <<Call("execute", <<>>, <<last.cmd>>), Call("rollback", <<>>, <<>>)>>
    /\ last.ret = RetRaise("rollback")

----------------------------------------------------------------------------
\* the command fails the policy check of the backend: the read-only and
\* unsafe-operation tests of the SQL managers, the deny-list of MongoDB
FailsPolicy(cmd) ==
    IF backend = "mongo" THEN cmd.t \in {"str", "dict"} /\ ~MongoDenyListPasses(cmd)
    ELSE ~PolicyPassed(cmd)

DenialLogs == {"Query blocked: Non-read operation detected in query",
               "Blocked unsafe operation in command"}

\* C18: for every command that fails the policy check, on a manager with
\* a connection or without, execute_query hands back a result with the
\* refusal reason and has logged the denial.
\* Violated: the test for a connection comes first, so without connection
\* the caller gets None and the log has no denial.
C18_DenialReportedAndLogged ==
    (last.method = "execute_query" /\ FailsPolicy(last.cmd)) =>
        /\ last.ret.kind = "error"
        /\ last.ret.msg \in BlockedMessages
        /\ \E i \in DOMAIN last.log : last.log[i] \in DenialLogs

\* DROP TABLE x on a PostgreSQL manager without connection: None comes
\* back, and the log speaks of the connection only
C18_DeniedCommandWithoutConnection ==
    /\ backend = "postgres" /\ ~connection
    /\ last.method = "execute_query"
    \* DROP TABLE x
    /\ last.cmd = PyStr(<<"D","R","O","P"," ","T","A","B","L","E"," ","x">>)
    /\ FailsPolicy(last.cmd)
    /\ last.ret = RetNone
    /\ last.log = <<"Query execution failed: No active database connection">>

----------------------------------------------------------------------------
\* C19: a document value of bson (ObjectId, datetime, Binary) that is
\* written in its canonical form and read back is the value it was, and a
\* canonical form in the argument of a command (the {"$oid": ...} made
\* from ObjectId("...")) is the bson value when it is used as filter.
\* Violated: the text written by json_util.dumps is read back by
\* json.loads, and so is every argument: {"$oid": ...} stays a dict.
C19_ExtendedValuesRoundTrip ==
    /\ last.method = "json_util_dumps" => last.result = Returned(last.written[1])
    /\ last.method = "safe_eval_params" => last.result = Returned(last.written[1])

\* the filter made of {"_id": ObjectId("5f")} holds the dict {"$oid": "5f"}
C19_ObjectIdFilterIsPlainDict ==
    /\ last.method = "safe_eval_params"
    \* {"_id": ObjectId("5f")}
    /\ last.cmd = PyStr(<<"{","\"","_","i","d","\"",":"," ","O","b","j","e","c","t","I","d","(","\"","5","f","\"",")","}">>)
    \* _id   5f
    /\ last.written = <<One(<<"_","i","d">>, PyObjectId(<<"5","f">>))>>
    \* _id   $oid   5f
    /\ last.result = Returned(One(<<"_","i","d">>, One(<<"$","o","i","d">>, PyStr(<<"5","f">>))))

----------------------------------------------------------------------------
\* the text is, as written, a member of the safe literal statements
WrittenSafeLiteral(cmd) == cmd.t = "str" /\ strip(cmd.v) \in SAFE_STRING_COMMANDS

\* C20: every safe literal statement (show collections, show dbs, show
\* databases, db stats, db.stats(), show profile, db.getProfilingStatus(),
\* db.version()) submitted as text to a connected MongoDB manager is
\* accepted and issues its introspection call.
\* Violated: the text is compared in lower case, which
\* "db.getProfilingStatus()" is not; it is then parsed as shell syntax and
\* refused.
C20_SafeLiteralsDispatched ==
    (backend = "mongo" /\ RanQuery /\ WrittenSafeLiteral(last.cmd)) =>
        /\ last.calls # <<>>
        /\ last.calls = SafeStringCommand(strip(last.cmd.v), last.outcome).calls
        /\ last.outcome # "fault" => last.ret.kind # "error"

\* db.getProfilingStatus() is refused as a shell command that cannot be
\* parsed, and nothing is asked of the database
C20_GetProfilingStatusRefused ==
    /\ backend = "mongo" /\ RanQuery
    \* db.getProfilingStatus()
    /\ last.cmd = PyStr(<<"d","b",".","g","e","t","P","r","o","f","i","l","i","n","g","S","t","a","t","u","s","(",")">>)
    /\ last.outcome = "docs"
    /\ last.calls = <<>>
    /\ last.ret = RetError("Invalid MongoDB shell command format")

----------------------------------------------------------------------------
\* the chained operations the executor knows, with the call each one is
RecognizedChained ==
    \* sort   limit   skip   project   projection   count
    [op \in {<<"s","o","r","t">>, <<"l","i","m","i","t">>, <<"s","k","i","p">>, <<"p","r","o","j","e","c","t">>, <<"p","r","o","j","e","c","t","i","o","n">>, <<"c","o","u","n","t">>} |->
        \* count
        CASE op = <<"c","o","u","n","t">> -> "count_documents"
          \* project   projection
          [] op \in {<<"p","r","o","j","e","c","t">>, <<"p","r","o","j","e","c","t","i","o","n">>} -> "projection"
          \* sort
          [] op = <<"s","o","r","t">> -> "sort"
          \* limit
          [] op = <<"l","i","m","i","t">> -> "limit"
          [] OTHER -> "skip"]

\* the argument of a chained operation is one it can take
ChainedArgumentFits(op) ==
    \* limit   skip
    CASE op[1] \in {<<"l","i","m","i","t">>, <<"s","k","i","p">>} -> IsIntLiteral(op[2])
      \* count
      [] op[1] = <<"c","o","u","n","t">> -> TRUE
      [] OTHER -> LET v == safe_eval_params(op[2]) IN ~v.raised /\ v.val.t = "dict"

\* a shell find, let through, with a readable filter, whose chained
\* operations are all known and all have fitting arguments
WellFormedChain(cmd) ==
    \* find
    /\ IsShellCommand(cmd) /\ ParsedShell(cmd).primary_op = <<"f","i","n","d">>
    /\ MongoDenyListPasses(cmd)
    /\ LET p == ParsedShell(cmd)
           f == FilterOf(p.primary_params)
       IN  /\ ~f.raised /\ f.val.t = "dict"
           /\ p.chained_ops # <<>>
           /\ \A i \in DOMAIN p.chained_ops :
                  /\ p.chained_ops[i][1] \in DOMAIN RecognizedChained
                  /\ ChainedArgumentFits(p.chained_ops[i])

\* C21: for a shell find with chained operations the executor makes one
\* call for each chained operation, in the order written, after the find,
\* and every one of them takes effect on what is returned: none is
\* dropped, none fails, and a count counts what the operations before it
\* left.
\* Violated: project calls cursor.projection, which a cursor does not
\* have; count returns collection.count_documents(filter_dict) at once,
\* whatever was chained before or after it.
C21_ChainedOperationsApplied ==
    (backend = "mongo" /\ RanQuery /\ last.outcome # "fault" /\ WellFormedChain(last.cmd)) =>
        LET ops == ParsedShell(last.cmd).chained_ops
        IN  /\ last.ret.kind # "error"
            /\ Len(last.calls) = 1 + Len(ops)
            /\ last.calls[1].fn = "find"
            /\ \A i \in DOMAIN ops :
                   /\ last.calls[i + 1].fn = RecognizedChained[ops[i][1]]
                   \* count
                   /\ ops[i][1] = <<"c","o","u","n","t">> => Len(ops) = 1

\* find({}).project({"a": 1}): the find is issued, the projection is not,
\* and an error comes back instead of the documents
C21_ProjectFailsAfterFind ==
    /\ backend = "mongo" /\ RanQuery
    \* db.users.find({}).project({"a": 1})
    /\ last.cmd = PyStr(<<"d","b",".","u","s","e","r","s",".","f","i","n","d","(","{","}",")",".","p","r","o","j","e","c","t","(","{","\"","a","\"",":"," ","1","}",")">>)
    /\ WellFormedChain(last.cmd)
    /\ last.outcome = "docs"
    \* users
    /\ last.calls = <<Call("find", <<"u","s","e","r","s">>, <<EmptyDict>>)>>
    /\ last.ret = RetError("Error executing command")

----------------------------------------------------------------------------
\* how often the caller's query was handed to cursor.execute
TimesExecuted == Cardinality({i \in DOMAIN last.calls :
                                 last.calls[i] = Call("execute", <<>>, <<last.cmd>>)})

\* C22: when a driver call of execute_query faults, the query is not sent
\* again in that invocation, and when execute_query is left the statement
\* timeout of the session is the one the connection was opened with.
\* Violated: nothing sets the timeout back; on MySQL the SET of the call
\* that failed stays in force (on PostgreSQL the rollback undoes it, but
\* not one that execute_query_to_dataframe has committed).
C22_FaultLeavesDefaultTimeout ==
    (last.method = "execute_query" /\ DriverRaised) =>
        /\ TimesExecuted = 1
        /\ session.statement_timeout = session.default

\* MySQL: a SELECT with timeout=1000 failed, and max_execution_time is
\* still 1000
C22_FailedCallLeavesItsTimeout ==
    /\ backend = "mysql" /\ connection
    /\ last.method = "execute_query"
    \* SELECT * FROM t
    /\ last.cmd = PyStr(<<"S","E","L","E","C","T"," ","*"," ","F","R","O","M"," ","t">>)
    \* 1000
    /\ last.timeout = PyInt(<<"1","0","0","0">>)
    /\ last.outcome = "fault"
    /\ TimesExecuted = 1
    /\ last.ret = RetError("Query execution failed")
    /\ session.default = DEFAULT_STATEMENT_TIMEOUT
    \* 1000
    /\ session.statement_timeout = <<"1","0","0","0">>

----------------------------------------------------------------------------
(* The tools of main.py that reach the databases: run_query and            *)
(* db_analyzer.  Each request builds an analyzer with a manager of its     *)
(* own, initializes it and uses it; backend, connection, client, db and    *)
(* session are then the manager of the last request.                       *)

MaxOpen == 2

\* `if type =='mongo': ... else:` with PostgresDBAnalyzer
RequestTypes == {"mongo", "postgres", "mysql"}

ManagerOf(type) == IF type = "mongo" THEN "mongo" ELSE "postgres"

ConnectOutcomes(b) ==
    IF b = "mongo" THEN {"ok", "ok_no_db_name", "ping_failed", "client_failed"}
    ELSE {"ok", "refused", "session_failed"}

\* connect on the manager of a new analyzer: the handles it leaves and
\* what it returns
Connecting(b, outcome) ==
    IF b = "mongo"
    THEN [connection |-> FALSE, client |-> outcome # "client_failed", db |-> outcome = "ok",
          returns |-> outcome \in {"ok", "ok_no_db_name"}]
    ELSE [connection |-> outcome # "refused", client |-> FALSE, db |-> FALSE,
          returns |-> outcome = "ok"]

\* analyzer.initialize(): `return db_success and openai_success`
Initialize(b, connect, openai_success) ==
    [connect |-> connect, openai_success |-> openai_success,
     returns |-> Connecting(b, connect).returns /\ openai_success]

RunQueryTexts(b) ==
    IF b = "mongo"
    \* db.users.find({})   db.users.findOne({"a": 1})   db.users.deleteOne({})   show collections
    THEN {<<"d","b",".","u","s","e","r","s",".","f","i","n","d","(","{","}",")">>, <<"d","b",".","u","s","e","r","s",".","f","i","n","d","O","n","e","(","{","\"","a","\"",":"," ","1","}",")">>, <<"d","b",".","u","s","e","r","s",".","d","e","l","e","t","e","O","n","e","(","{","}",")">>, <<"s","h","o","w"," ","c","o","l","l","e","c","t","i","o","n","s">>}
    \* SELECT * FROM t   DELETE FROM t   SELECT pg_sleep(10)   (empty)
    ELSE {<<"S","E","L","E","C","T"," ","*"," ","F","R","O","M"," ","t">>, <<"D","E","L","E","T","E"," ","F","R","O","M"," ","t">>, <<"S","E","L","E","C","T"," ","p","g","_","s","l","e","e","p","(","1","0",")">>, <<>>}

OutcomesOf(b) == IF b = "mongo" THEN MongoOutcomes ELSE SqlOutcomes

\* a request served: the tool, its arguments, what initialize did, the
\* driver calls of the manager, and how the tool function ended ("return"
\* with text, "raise", or "exit" by sys.exit(1))
Served(method, type, cmd, outcome, initialize, r, text) ==
    Done(method, cmd, outcome, r) @@
    [type |-> type, initialize |-> initialize, text |-> text,
     how |-> IF ~initialize.returns THEN "exit"
             ELSE IF r.ret.kind = "raise" THEN "raise" ELSE "return"]

\* sys.exit(1) after "Exiting due to initialization failure. Check logs"
Exiting == Res(<<>>, RetNone, <<"Exiting due to initialization failure. Check logs">>)

\* The function returns and its analyzer is unreferenced; neither tool
\* calls disconnect.  Whether the interpreter has finalized the handle by
\* then is left to it (finalized).
Returning(finalized) ==
    Server(TRUE, IF finalized THEN server.open ELSE server.open + 1)

\* the process ends, and its connections with it
Exited == Server(FALSE, 0)

\* execute_query of the manager that connect left with the handles h:
\* MongoDBManager.execute_query and PostgresDBManager.execute_query
MongoRequested(h, cmd, outcome) ==
    IF ~h.client \/ ~h.db
    THEN Res(<<>>, RetNone, <<"No active MongoDB connection.">>)
    ELSE MongoResults[<<cmd, outcome>>]

PostgresRequested(h, cmd, outcome) ==
    IF ~h.connection THEN NoConnection ELSE PostgresResults[<<cmd, outcome>>]

\* run_query after execute_query: the text of its answer
Answered(type, cmd, outcome, initialize, r) ==
    Served("run_query", type, cmd, outcome, initialize, r,
           IF r.ret.kind = "raise" THEN "" ELSE run_query(r.ret).text)

\* the manager of the new analyzer after initialize
NewManager(b, connect) ==
    /\ backend' = b
    /\ connection' = Connecting(b, connect).connection
    /\ client' = Connecting(b, connect).client
    /\ db' = Connecting(b, connect).db

\* run_query(query, type)
RunQuery ==
    /\ server.running
    /\ server.open < MaxOpen
    /\ \E type \in RequestTypes, openai_success \in BOOLEAN, finalized \in BOOLEAN :
       \E connect \in ConnectOutcomes(ManagerOf(type)),
          text \in RunQueryTexts(ManagerOf(type)), outcome \in OutcomesOf(ManagerOf(type)) :
         /\ NewManager(ManagerOf(type), connect)
         /\ IF Connecting(ManagerOf(type), connect).connection
            THEN session' \in Opened(ManagerOf(type), connect)
            ELSE session' = NoSession
         /\ IF Initialize(ManagerOf(type), connect, openai_success).returns
            THEN /\ last' = Answered(type, PyStr(text), outcome,
                                     Initialize(ManagerOf(type), connect, openai_success),
                                     IF type = "mongo"
                                     THEN MongoRequested(Connecting("mongo", connect), PyStr(text), outcome)
                                     ELSE PostgresRequested(Connecting("postgres", connect), PyStr(text), outcome))
                 /\ server' = Returning(finalized)
            ELSE /\ last' = Served("run_query", type, PyStr(text), "none",
                                   Initialize(ManagerOf(type), connect, openai_success), Exiting, "")
                 /\ server' = Exited

\* the completions of the model that translate the request: none, or text
SqlCompletions == {
    \* (empty)   SELECT * FROM t    SELECT * FROM t\n
    PyNone, PyStr(<<>>), PyStr(<<"S","E","L","E","C","T"," ","*"," ","F","R","O","M"," ","t">>), PyStr(<<" ","S","E","L","E","C","T"," ","*"," ","F","R","O","M"," ","t","\n">>),
    \* SELECT update_count FROM t   DELETE FROM t
    PyStr(<<"S","E","L","E","C","T"," ","u","p","d","a","t","e","_","c","o","u","n","t"," ","F","R","O","M"," ","t">>), PyStr(<<"D","E","L","E","T","E"," ","F","R","O","M"," ","t">>) }

MongoCompletions == {
    PyNone, PyStr(<<>>),
    \* {"collection": "users", "operation": "find", "query": {}}
    PyStr(<<"{","\"","c","o","l","l","e","c","t","i","o","n","\"",":"," ","\"","u","s","e","r","s","\"",","," ","\"","o","p","e","r","a","t","i","o","n","\"",":"," ","\"","f","i","n","d","\"",","," ","\"","q","u","e","r","y","\"",":"," ","{","}","}">>),
    \* {"collection": "users", "operation": "count", "query": {"a": 1}}
    PyStr(<<"{","\"","c","o","l","l","e","c","t","i","o","n","\"",":"," ","\"","u","s","e","r","s","\"",","," ","\"","o","p","e","r","a","t","i","o","n","\"",":"," ","\"","c","o","u","n","t","\"",","," ","\"","q","u","e","r","y","\"",":"," ","{","\"","a","\"",":"," ","1","}","}">>),
    \* {"collection": "users", "operation": "deleteOne"}
    PyStr(<<"{","\"","c","o","l","l","e","c","t","i","o","n","\"",":"," ","\"","u","s","e","r","s","\"",","," ","\"","o","p","e","r","a","t","i","o","n","\"",":"," ","\"","d","e","l","e","t","e","O","n","e","\"","}">>),
    \* {"collection": "users", "query": {}}
    PyStr(<<"{","\"","c","o","l","l","e","c","t","i","o","n","\"",":"," ","\"","u","s","e","r","s","\"",","," ","\"","q","u","e","r","y","\"",":"," ","{","}","}">>),
    \* {"collection": "updates", "operation": "find"}
    PyStr(<<"{","\"","c","o","l","l","e","c","t","i","o","n","\"",":"," ","\"","u","p","d","a","t","e","s","\"",","," ","\"","o","p","e","r","a","t","i","o","n","\"",":"," ","\"","f","i","n","d","\"","}">>),
    \* db.users.find({})   [1, 2]   5
    PyStr(<<"d","b",".","u","s","e","r","s",".","f","i","n","d","(","{","}",")">>), PyStr(<<"[","1",","," ","2","]">>), PyStr(<<"5">>) }

FORBIDDEN_KEYWORDS == {
    \* insert   update   delete   drop   alter   create   truncate   grant   revoke
    <<"i","n","s","e","r","t">>, <<"u","p","d","a","t","e">>, <<"d","e","l","e","t","e">>, <<"d","r","o","p">>, <<"a","l","t","e","r">>, <<"c","r","e","a","t","e">>, <<"t","r","u","n","c","a","t","e">>, <<"g","r","a","n","t">>, <<"r","e","v","o","k","e">> }

\* PostgresDBAnalyzer.translate_to_sql, sql_query being the completion
translate_to_sql(sql_query) ==
    IF Truthy(sql_query)
    THEN IF \E keyword \in FORBIDDEN_KEYWORDS : contains(lower(strip(sql_query.v)), keyword)
         THEN PyNone
         ELSE PyStr(strip(sql_query.v))
    ELSE PyNone

\* find   aggregate   count   distinct
SAFE_OPERATIONS == {<<"f","i","n","d">>, <<"a","g","g","r","e","g","a","t","e">>, <<"c","o","u","n","t">>, <<"d","i","s","t","i","n","c","t">>}

ANALYZER_UNSAFE_KEYWORDS == {
    \* $out   $merge   insert   update   delete   remove   replace
    <<"$","o","u","t">>, <<"$","m","e","r","g","e">>, <<"i","n","s","e","r","t">>, <<"u","p","d","a","t","e">>, <<"d","e","l","e","t","e">>, <<"r","e","m","o","v","e">>, <<"r","e","p","l","a","c","e">>,
    \* createindex   dropindex   dropcollection   createcollection
    <<"c","r","e","a","t","e","i","n","d","e","x">>, <<"d","r","o","p","i","n","d","e","x">>, <<"d","r","o","p","c","o","l","l","e","c","t","i","o","n">>, <<"c","r","e","a","t","e","c","o","l","l","e","c","t","i","o","n">> }

\* `"operation" not in query_dict or query_dict["operation"] not in SAFE_OPERATIONS`
\* for what json.loads gave: a membership test on a number raises
\* TypeError, which `except json.JSONDecodeError` does not catch
Checked(query_dict) ==
    IF query_dict.t \in {"int", "bool", "None"} THEN Raised
    ELSE IF query_dict.t # "dict" THEN Returned(PyNone)
    \* operation
    ELSE IF ~HasKey(query_dict, <<"o","p","e","r","a","t","i","o","n">>)
            \* operation
            \/ Get(query_dict, <<"o","p","e","r","a","t","i","o","n">>).t # "str"
            \* operation
            \/ Get(query_dict, <<"o","p","e","r","a","t","i","o","n">>).v \notin SAFE_OPERATIONS
    THEN Returned(PyNone)
    ELSE IF \E keyword \in ANALYZER_UNSAFE_KEYWORDS : contains(lower(json_dumps(query_dict)), keyword)
    THEN Returned(PyNone)
    ELSE Returned(query_dict)

\* MongoDBAnalyzer.translate_to_mongodb_query, query_json being the completion
translate_to_mongodb_query(query_json) ==
    IF Truthy(query_json)
    THEN IF json_loads(strip(query_json.v)).ok
         THEN Checked(json_loads(strip(query_json.v)).val)
         ELSE Returned(PyNone)
    ELSE Returned(PyNone)

\* the result mapping of process_request
ResultMapping(success, error) == [kind |-> "result", msg |-> error, success |-> success]

\* `if data is None or data.empty:` for what execute_query returned (r): a
\* list and a dict have no attribute empty
PostgresData(r) ==
    IF r.ret.kind = "raise" THEN r
    ELSE IF r.ret.kind = "None"
    THEN Res(r.calls, ResultMapping(FALSE, "No data found matching your request. Please try a different query."), r.log)
    ELSE Res(r.calls, RetRaise("AttributeError"), r.log)

\* PostgresDBAnalyzer.process_request on the manager with the handles h
PostgresDBAnalyzer_process_request(h, sql_query, outcome) ==
    IF ~Truthy(sql_query)
    THEN Res(<<>>, ResultMapping(FALSE, "Failed to translate your request to SQL. Please try rephrasing or provide more details."), <<>>)
    ELSE PostgresData(PostgresRequested(h, sql_query, outcome))

\* MongoDBAnalyzer.process_request: execute_query(collection=..., operation=...,
\* query=..., projection=..., sort=..., limit=...) on a method whose one
\* parameter is raw_command is a TypeError before the method starts
MongoDBAnalyzer_process_request(mongo_query) ==
    IF mongo_query.raised THEN Res(<<>>, RetRaise("TypeError"), <<>>)
    ELSE IF ~Truthy(mongo_query.val)
    THEN Res(<<>>, ResultMapping(FALSE, "Failed to translate your request to a MongoDB query. Please try rephrasing or provide more details."), <<>>)
    ELSE Res(<<>>, RetRaise("TypeError"), <<"Generated MongoDB query">>)

\* db_analyzer after process_request: `if result is None:` never holds for
\* a mapping
Analyzed(type, cmd, outcome, initialize, r) ==
    Served("db_analyzer", type, cmd, outcome, initialize, r,
           IF r.ret.kind = "raise" THEN ""
           ELSE IF r.ret.kind = "None" THEN "Request execution failed. Check logs for details."
           ELSE "Request executed successfully. Results: ")

\* the session that process_request leaves: translate_to_sql calls
\* get_rich_schema_info, which sends "SET statement_timeout = 600000;";
\* then execute_query
Processed(h, sql_query, outcome, s) ==
    IF Truthy(sql_query)
    THEN Timed("postgres", PostgresRequested(h, sql_query, outcome), PyNone,
               SetTimeout(s, SCHEMA_STATEMENT_TIMEOUT)).session
    ELSE SetTimeout(s, SCHEMA_STATEMENT_TIMEOUT)

\* db_analyzer(request, type) with type 'mongo'
DbAnalyzerMongo ==
    /\ server.running
    /\ server.open < MaxOpen
    /\ \E openai_success \in BOOLEAN, finalized \in BOOLEAN, connect \in ConnectOutcomes("mongo"),
          completion \in MongoCompletions :
         /\ NewManager("mongo", connect)
         /\ session' = NoSession
         /\ IF Initialize("mongo", connect, openai_success).returns
            THEN /\ last' = Analyzed("mongo", completion, "none",
                                     Initialize("mongo", connect, openai_success),
                                     MongoDBAnalyzer_process_request(translate_to_mongodb_query(completion)))
                 /\ server' = Returning(finalized)
            ELSE /\ last' = Served("db_analyzer", "mongo", completion, "none",
                                   Initialize("mongo", connect, openai_success), Exiting, "")
                 /\ server' = Exited

\* db_analyzer(request, type) with another type
DbAnalyzerPostgres ==
    /\ server.running
    /\ server.open < MaxOpen
    /\ \E type \in RequestTypes \ {"mongo"}, openai_success \in BOOLEAN, finalized \in BOOLEAN,
          connect \in ConnectOutcomes("postgres"), completion \in SqlCompletions,
          outcome \in SqlOutcomes :
         /\ NewManager("postgres", connect)
         /\ IF Initialize("postgres", connect, openai_success).returns
            THEN /\ last' = Analyzed(type, completion, outcome,
                                     Initialize("postgres", connect, openai_success),
                                     PostgresDBAnalyzer_process_request(Connecting("postgres", connect),
                                                                        translate_to_sql(completion), outcome))
                 /\ \E s \in Opened("postgres", connect) :
                      session' = Processed(Connecting("postgres", connect),
                                           translate_to_sql(completion), outcome, s)
                 /\ server' = Returning(finalized)
            ELSE /\ last' = Served("db_analyzer", type, completion, "none",
                                   Initialize("postgres", connect, openai_success), Exiting, "")
                 /\ IF Connecting("postgres", connect).connection
                    THEN session' \in Opened("postgres", connect)
                    ELSE session' = NoSession
                 /\ server' = Exited

ServerNext ==
    \/ RunQuery
    \/ DbAnalyzerMongo
    \/ DbAnalyzerPostgres

ServerSpec == Init /\ [][ServerNext]_vars

----------------------------------------------------------------------------
\* the three coercions of an argument text, in their order
Coercions(text) ==
    <<json_loads(text), json_loads(quote_bare_keys(text)), json_loads(rewrite_objectid(text))>>

FirstSuccess(text) ==
    LET c == Coercions(text)
    IN  IF \E i \in 1..3 : c[i].ok THEN CHOOSE i \in 1..3 : c[i].ok /\ \A j \in 1..(i - 1) : ~c[j].ok
        ELSE 0

\* C23: safe_eval_params tries strict JSON, then JSON after quoting bare
\* keys, then JSON after rewriting ObjectId("...") to {"$oid": "..."}; it
\* returns the value of the first of these that succeeds and makes no
\* attempt after it; empty argument text gives the empty mapping, without
\* any attempt.
C23_FirstSuccessfulCoercion ==
    last.method = "json_loads" =>
        LET text == last.cmd.v
            n == FirstSuccess(text)
        IN  IF strip(text) = <<>>
            THEN last.result = Returned(EmptyDict) /\ last.written = <<>>
            ELSE /\ n # 0 => /\ last.result = Returned(Coercions(text)[n].val)
                             /\ Len(last.written) = n
                 /\ \A i \in DOMAIN last.written :
                        /\ \A j \in 1..(i - 1) : ~Coercions(text)[j].ok
                        /\ last.written[i] = <<text, quote_bare_keys(text), rewrite_objectid(text)>>[i]

\* {a: 1} is no JSON, and is read at the second attempt
C23_BareKeysReadAtSecondAttempt ==
    /\ last.method = "json_loads"
    \* {a: 1}
    /\ last.cmd = PyStr(<<"{","a",":"," ","1","}">>)
    /\ FirstSuccess(last.cmd.v) = 2
    \* {a: 1}   {"a": 1}
    /\ last.written = <<<<"{","a",":"," ","1","}">>, <<"{","\"","a","\"",":"," ","1","}">>>>
    \* a   1
    /\ last.result = Returned(One(<<"a">>, PyInt(<<"1">>)))

----------------------------------------------------------------------------
\* the two answers of run_query
RunQueryAnswers == {
    "Query execution failed. Check logs for details.",
    "Query executed successfully. Results: " }

\* C24: run_query returns a text for every query and type: when the
\* initialization of the analyzer fails it returns a text that reports the
\* failure, and it never ends the server process nor raises.
C24_RunQueryAlwaysAnswers ==
    last.method = "run_query" =>
        /\ server.running
        /\ last.how = "return"
        /\ last.text \in RunQueryAnswers
        /\ ~last.initialize.returns => last.text # "Query executed successfully. Results: "

\* the database refuses the connection, and run_query ends the process
C24_RefusedConnectionExits ==
    /\ last.method = "run_query"
    /\ last.type = "postgres"
    \* SELECT * FROM t
    /\ last.cmd = PyStr(<<"S","E","L","E","C","T"," ","*"," ","F","R","O","M"," ","t">>)
    /\ last.initialize = [connect |-> "refused", openai_success |-> TRUE, returns |-> FALSE]
    /\ last.how = "exit"
    /\ last.text = ""
    /\ last.log = <<"Exiting due to initialization failure. Check logs">>
    /\ ~server.running

----------------------------------------------------------------------------
\* C26: every connection that a run_query or db_analyzer request opens is
\* closed by the time the request returns, so that no connection stays
\* open between requests, however many were served.
C26_ConnectionsClosedOnReturn ==
    (last.method \in {"run_query", "db_analyzer"} /\ server.running) => server.open = 0

\* two queries answered, neither with a close, and two connections open
C26_TwoQueriesTwoConnections ==
    /\ last.method = "run_query"
    /\ last.how = "return"
    /\ last.text = "Query executed successfully. Results: "
    /\ connection
    /\ Call("close", <<>>, <<>>) \notin Range(last.calls)
    /\ server = Server(TRUE, 2)

----------------------------------------------------------------------------
\* C30: process_request of both analyzers never raises: whatever the
\* translation gave and whatever execute_query returned, db_analyzer gets
\* a result mapping with success and error, and a mapping without success
\* names its error.
C30_ProcessRequestReturnsMapping ==
    (last.method = "db_analyzer" /\ last.initialize.returns) =>
        /\ last.how = "return"
        /\ last.ret.kind = "result"
        /\ last.ret.success \/ last.ret.msg # ""
        /\ last.text = "Request executed successfully. Results: "

\* the rows of a translated SELECT have no attribute empty
C30_RowsRaiseAttributeError ==
    /\ last.method = "db_analyzer"
    /\ last.type = "postgres"
    \* SELECT * FROM t
    /\ last.cmd = PyStr(<<"S","E","L","E","C","T"," ","*"," ","F","R","O","M"," ","t">>)
    /\ last.outcome = "rows"
    /\ last.initialize.returns
    /\ last.calls = <<Call("execute", <<>>, <<last.cmd>>), Call("fetchall", <<>>, <<>>)>>
    /\ last.ret = RetRaise("AttributeError")
    /\ last.how = "raise"

----------------------------------------------------------------------------
\* the manager holds a handle that execute_query would use
HoldsHandle == connection \/ client \/ db

\* C25: in any sequence of connect, disconnect and execute_query on a
\* manager, execute_query issues driver calls only if the latest connect
\* returned True and no disconnect came after it; after a connect that
\* returned False the manager holds no usable handle; after a connect that
\* returned True execute_query does not report a missing connection.
C25_ConnectResultGovernsQueries ==
    [][/\ (last'.method = "connect" /\ last'.ret = RetFalse) => ~HoldsHandle'
       /\ (last'.method = "execute_query" /\ last.method = "connect" /\ last.ret = RetFalse)
              => last'.calls = <<>>
       /\ (last'.method = "execute_query" /\ last.method = "disconnect")
              => last'.calls = <<>>
       /\ (last'.method = "execute_query" /\ last.method = "connect" /\ last.ret = RetTrue)
              => last'.log \notin NoConnectionLogs]_vars

\* connect returned False because the session statement failed, and the
\* manager keeps the connection that execute_query will use
C25_FailedConnectKeepsConnection ==
    /\ backend = "postgres"
    /\ last.method = "connect"
    /\ last.outcome = "session_failed"
    /\ last.ret = RetFalse
    /\ connection
    /\ session # NoSession

----------------------------------------------------------------------------
\* w stands in s as a whole word: an occurrence with no word character
\* before it and none after it
WholeWord(w, s) ==
    \E i \in 1..(Len(s) - Len(w) + 1) :
        /\ SubSeq(s, i, i + Len(w) - 1) = w
        /\ i = 1 \/ s[i - 1] \notin WordChars
        /\ i + Len(w) = Len(s) + 1 \/ s[i + Len(w)] \notin WordChars

\* C27: on PostgreSQL and MySQL a command whose upper-cased text has a
\* deny-listed keyword as a whole word anywhere, be it in a string literal,
\* an alias or a CASE ... END of a single SELECT, is rejected by
\* execute_query and reaches no driver call.
C27_DenyWordAnywhereRejected ==
    (/\ backend \in {"postgres", "mysql"}
     /\ RanQuery
     /\ \E w \in DenyWords : WholeWord(w, upper(last.cmd.v)))
        => /\ BlockedByPolicy
           /\ last.calls = <<>>

\* a SELECT with the word update in a string literal is refused
C27_QuotedUpdateRejected ==
    /\ backend = "postgres"
    /\ RanQuery
    \* SELECT * FROM t WHERE a = 'update'
    /\ last.cmd = PyStr(<<"S","E","L","E","C","T"," ","*"," ","F","R","O","M"," ","t"," ","W","H","E","R","E"," ","a"," ","="," ","'","u","p","d","a","t","e","'">>)
    \* UPDATE
    /\ WholeWord(<<"U","P","D","A","T","E">>, upper(last.cmd.v))
    /\ last.outcome = "rows"
    /\ last.ret = RetError("Operation blocked -  Non-read operation detected in query")
    /\ last.calls = <<>>

----------------------------------------------------------------------------
Count(char, s) == Cardinality({i \in DOMAIN s : s[i] = char})

\* the command leaves a parenthesis open
Unbalanced(cmd) == cmd.t = "str" /\ Count("(", cmd.v) > Count(")", cmd.v)

\* C28: a MongoDB shell command with unbalanced parentheses, whether its
\* primary call or a chained call lacks the closing parenthesis, is
\* rejected with an error and issues no driver call; an unterminated
\* chained call is not dropped while the rest of the chain runs.
C28_UnbalancedShellRejected ==
    \* db.
    (backend = "mongo" /\ RanQuery /\ Unbalanced(last.cmd) /\ startswith(strip(last.cmd.v), <<"d","b",".">>))
        => /\ last.ret.kind = "error"
           /\ last.calls = <<>>

\* limit(5 is never closed: find runs without it and its rows come back
C28_UnterminatedLimitDropped ==
    /\ backend = "mongo"
    /\ RanQuery
    \* db.users.find({}).limit(5
    /\ last.cmd = PyStr(<<"d","b",".","u","s","e","r","s",".","f","i","n","d","(","{","}",")",".","l","i","m","i","t","(","5">>)
    /\ Unbalanced(last.cmd)
    /\ ParsedShell(last.cmd).chained_ops = <<>>
    /\ last.outcome = "docs"
    \* users
    /\ last.calls = <<Call("find", <<"u","s","e","r","s">>, <<EmptyDict>>)>>
    /\ last.ret.kind = "rows"

----------------------------------------------------------------------------
Positions(char, s) == {i \in DOMAIN s : s[i] = char}

Least(S) == CHOOSE i \in S : \A j \in S : i <= j
Greatest(S) == CHOOSE i \in S : \A j \in S : i >= j

\* the text between the first and the second "." of s
SecondSegment(s) ==
    LET dots == Positions(".", s)
        d1 == Least(dots)
    IN  SubSeq(s, d1 + 1, Least(dots \ {d1}) - 1)

\* the segment that ends at the first "(" of s
CalledSegment(s) ==
    LET paren == Least(Positions("(", s))
    IN  SubSeq(s, Greatest({i \in Positions(".", s) : i < paren}) + 1, paren - 1)

\* C29: for db.<a>.<b>. ... .<op>(...) parse_shell_command takes as
\* collection the text between the first and the second ".", takes as
\* operation the last segment before the first "(" and discards the
\* segments between them: db.a.b.find() is run as find on collection a.
C29_CollectionIsSecondSegment ==
    (backend = "mongo" /\ RanQuery /\ last.cmd.t = "str" /\ ParsedShell(last.cmd).parsed) =>
        LET s == strip(last.cmd.v)
            p == ParsedShell(last.cmd)
        IN  /\ p.collection_name = SecondSegment(s)
            /\ Least(Positions("(", s)) > Least(Positions(".", s) \ {Least(Positions(".", s))})
                   => p.primary_op = strip(CalledSegment(s))
            \* find
            /\ (p.primary_op = <<"f","i","n","d">> /\ last.calls # <<>>)
                   => /\ last.calls[1].fn = "find"
                      /\ last.calls[1].target = SecondSegment(s)

\* db.a.b.c.find({"a": 1}).limit(5) is find on a, limited
C29_NestedNameRunsOnFirstSegment ==
    /\ backend = "mongo"
    /\ RanQuery
    \* db.a.b.c.find({"a": 1}).limit(5)
    /\ last.cmd = PyStr(<<"d","b",".","a",".","b",".","c",".","f","i","n","d","(","{","\"","a","\"",":"," ","1","}",")",".","l","i","m","i","t","(","5",")">>)
    /\ ParsedShell(last.cmd).collection_name = <<"a">>
    \* find
    /\ ParsedShell(last.cmd).primary_op = <<"f","i","n","d">>
    /\ last.outcome = "docs"
    \* a   a   1
    /\ last.calls = <<Call("find", <<"a">>, <<One(<<"a">>, PyInt(<<"1">>))>>),
                      \* a   5
                      Call("limit", <<"a">>, <<PyInt(<<"5">>)>>)>>
    /\ last.ret.kind = "rows"

====
